---- MODULE Spec2Model ----
(***************************************************************************)
(* A model of mcp-hangar's runtime core:                                   *)
(*   - the Provider aggregate (domain/model/provider.py): state machine,   *)
(*     health counters, client ownership, version and recorded events;     *)
(*   - the ConcurrencyManager (server/tools/batch/concurrency.py);         *)
(*   - the BatchExecutor (server/tools/batch/executor.py).                 *)
(* Every public Provider operation runs under the aggregate's RLock, so    *)
(* each one is one atomic action; the child process is the environment     *)
(* and may die between any two operations.                                 *)
(***************************************************************************)
EXTENDS Integers, Sequences, FiniteSets, TLC

\* ------------------------------------------------------------------ bounds
\* Children one provider may spawn in a run.
MaxSpawn == 3
\* Cap of the aggregate's version counter.
MaxVersion == 6
\* Cap of HealthTracker.consecutive_failures.
MaxCF == 3

\* ------------------------------------------------- configuration constants
\* Provider(max_consecutive_failures=...), the degradation threshold.
max_consecutive_failures == 2
\* Provider(idle_ttl_s=...), in clock ticks.
idle_ttl_s == 1
\* HealthTracker backoff: min(cap, base * 2^min(consecutive_failures, k)).
BackoffBase == 1
BackoffCap == 60
BackoffK == 6

ToolNames == {"add"}
RequestedTools == {"add", "nope"}

COLD == "cold"
INITIALIZING == "initializing"
READY == "ready"
DEGRADED == "degraded"
DEAD == "dead"
ProviderState == {COLD, INITIALIZING, READY, DEGRADED, DEAD}

VARIABLES
  provider,   \* the Provider aggregate's fields
  procs,      \* child processes ever spawned: id -> "none"|"alive"|"dead"|"closed"
  last,       \* the most recent operation: what it wrote, recorded and returned
  cm,         \* the ConcurrencyManager's fields
  thr,        \* the threads calling ConcurrencyManager.acquire
  batch,      \* one BatchExecutor.execute call: its locals and what it returns
  wk,         \* the pool's work items, one per call: position in _execute_call
  flight,     \* the SingleFlight entry of the provider: leader and joined callers
  bus,        \* the CommandBus: its _handlers and the most recent call on it
  stdio,      \* one StdioClient: child process, reader task and pending calls
  lk          \* the aggregate lock of the Provider and the callers of its operations

provVars == <<provider, procs, last>>
cmVars == <<cm, thr>>
batchVars == <<batch, wk, flight>>
infraVars == <<bus, stdio, lk>>
vars == <<provider, procs, last, cm, thr, batch, wk, flight, bus, stdio, lk>>

\* ------------------------------------------------------- state machine table
VALID_TRANSITIONS ==
  [s \in ProviderState |->
     CASE s = COLD -> {INITIALIZING}
       [] s = INITIALIZING -> {READY, DEAD, DEGRADED}
       [] s = READY -> {COLD, DEAD, DEGRADED}
       [] s = DEGRADED -> {INITIALIZING, COLD}
       [] s = DEAD -> {INITIALIZING, DEGRADED}]

\* --------------------------------------------------- BatchExecutor data
\* Calls in one batch.
NCalls == 2
Indexes == 0..(NCalls - 1)

\* `results: list[CallResult | None] = [None] * len(calls)`: the None entry.
NoResult == [index |-> -1, call_id |-> <<>>, success |-> FALSE, error_type |-> "None",
             result |-> "None", truncated |-> FALSE, continuation_id |-> "None"]

\* CallResult as the executor builds it: `result` is the payload of a success
\* and None otherwise; `truncated` and `continuation_id` keep their defaults
\* unless a keyword sets them.
CallResult(call, success, error_type) ==
  [index |-> call.index, call_id |-> call.call_id, success |-> success,
   error_type |-> error_type, result |-> IF success THEN "payload" ELSE "None",
   truncated |-> FALSE, continuation_id |-> "None"]

\* SingleFlight with no execution in flight for the key.
NoLeader == -1
NoFlight == [leader |-> NoLeader, waiters |-> {}]

\* No execute() call has been made.
IdleBatch == [pc |-> "idle"]

\* A work item of the pool that no batch has submitted. cancelled_at: the check
\* at which the call found the cancel signal set; did: the pipeline steps it
\* has performed; effective_timeout: the timeout it computed, in units of the
\* global timeout; command: the InvokeTool command it sent and, with it, what
\* the cancel signal and the time left for the batch were at that moment.
IdleWorker ==
  [pc |-> "unsubmitted", provider |-> "A", sem |-> 0, had_to_wait |-> FALSE, exc |-> FALSE,
   result |-> NoResult, raised |-> "none", sent |-> <<>>, rpc |-> FALSE, entered |-> FALSE,
   saw_open |-> FALSE, sf |-> "none", held_global |-> FALSE, held_sem |-> 0,
   ended |-> "none", calls |-> 0, stale |-> FALSE, cancelled_at |-> "none", did |-> {},
   effective_timeout |-> 0, command |-> <<>>]

InitBatchIdle ==
  /\ batch = IdleBatch
  /\ wk = [i \in Indexes |-> IdleWorker]
  /\ flight = NoFlight

\* CommandBus(): no handler registered, nothing called yet. _handlers is the
\* set of its (command type, handler) items.
NoCall == [op |-> "none", command_type |-> "", handler |-> "", raised |-> "none",
           ret |-> "none", handled |-> <<>>, handlers0 |-> {}]

NewCommandBus == [handlers |-> {}, last |-> NoCall]

\* Requests one StdioClient is asked to make.
MaxRequests == 3

\* StdioClient(process): the child runs, the reader task runs, nothing is
\* pending. pending: request id -> "unused", "waiting", or how the call ended;
\* written: the requests written to the child and not answered; unread: the responses
\* the child has written that the reader has not consumed.
NewStdioClient ==
  [process |-> "running", reader |-> "running", closed |-> FALSE, next_id |-> 1,
   pending |-> [i \in 1..MaxRequests |-> "unused"], written |-> {}, unread |-> {},
   last |-> [op |-> "none", ret |-> "none"]]

\* threading.RLock(), free, and no caller in any operation. at: where each
\* caller is; op: the operation it called; plan: the RPCs its operation has
\* still to make; after: the aggregate as the operation leaves it; inflight:
\* the RPCs written to the child and not yet answered.
NoOwner == "none"
NewLock ==
  [owner |-> NoOwner, depth |-> 0,
   at |-> [t \in {"t1", "t2", "t3"} |-> "idle"],
   op |-> [t \in {"t1", "t2", "t3"} |-> "none"],
   plan |-> <<>>, after |-> <<>>, inflight |-> {}]

InitInfraIdle == bus = NewCommandBus /\ stdio = NewStdioClient /\ lk = NewLock

\* ------------------------------------------------------------ small helpers
Min(a, b) == IF a < b THEN a ELSE b

RECURSIVE Pow2(_)
Pow2(n) == IF n = 0 THEN 1 ELSE 2 * Pow2(n - 1)

Event(type) == [type |-> type, old_state |-> "", new_state |-> "", reason |-> ""]

\* The operation context threaded through the helpers of one public operation:
\* the aggregate, the children, and what the operation has written and recorded.
CtxOf(p, pr) == [p |-> p, procs |-> pr, writes |-> <<>>, events |-> <<>>,
                 raised |-> "none", ret |-> "none", rpcs |-> <<>>, capped |-> FALSE,
                 retry_in |-> 0, closes |-> <<>>, tool |-> "",
                 answer |-> "none"]

Ctx == CtxOf(provider, procs)

\* StdioClient.is_alive(): the process has not exited and the reader runs.
is_alive(c, client) == client # 0 /\ c.procs[client] = "alive"

\* StdioClient.close(): terminates the child; when close() itself raises, the
\* child is left as it was. The call is logged either way.
close(c, client, raises) ==
  IF raises THEN [c EXCEPT !.closes = Append(@, client)]
  ELSE [c EXCEPT !.procs[client] = "closed", !.closes = Append(@, client)]

\* StdioClient.call(method, ...): one request written to the child.
call(c, method) == [c EXCEPT !.rpcs = Append(@, method)]

\* --------------------------------------------------------- AggregateRoot
increment_version(c) == [c EXCEPT !.p.version = @ + 1]

record_event(c, e) == [c EXCEPT !.events = Append(@, e)]

\* ------------------------------------------------------------ HealthTracker
record_success(c) == [c EXCEPT !.p.consecutive_failures = 0]

record_failure(c) ==
  [c EXCEPT !.p.consecutive_failures = @ + 1, !.p.since_failure = 0]

record_invocation_failure(c) ==
  [c EXCEPT !.p.consecutive_failures = @ + 1, !.p.since_failure = 0]

should_degrade(p) == p.consecutive_failures >= max_consecutive_failures

Backoff(cf) == Min(BackoffCap, BackoffBase * Pow2(Min(cf, BackoffK)))

can_retry(p) == p.consecutive_failures = 0 \/ p.since_failure >= Backoff(p.consecutive_failures)

time_until_retry(p) ==
  IF can_retry(p) THEN 0 ELSE Backoff(p.consecutive_failures) - p.since_failure

\* ------------------------------------------------------------ Provider
\* A direct assignment `self._state = s`; the write is logged with the version
\* the aggregate had when it was made.
SetState(c, s) ==
  [c EXCEPT !.p.state = s,
            !.writes = Append(@, [old |-> c.p.state, new |-> s, version |-> c.p.version])]

_transition_to(c, new_state) ==
  IF new_state = c.p.state THEN c
  ELSE IF new_state \notin VALID_TRANSITIONS[c.p.state]
       THEN [c EXCEPT !.raised = "InvalidStateTransitionError"]
       ELSE record_event(
              increment_version(SetState(c, new_state)),
              [Event("ProviderStateChanged") EXCEPT !.old_state = c.p.state,
                                                     !.new_state = new_state])

\* _can_start that lets every start through.
_can_start_whenever(c) == <<TRUE, "", 0>>

\* <<can_start, reason, time_until_retry>>
_can_start(c) ==
  IF c.p.state = READY /\ is_alive(c, c.p.client) THEN <<TRUE, "already_ready", 0>>
  ELSE IF c.p.state = DEGRADED /\ ~can_retry(c.p)
       THEN <<FALSE, "backoff_not_elapsed", time_until_retry(c.p)>>
  ELSE <<TRUE, "", 0>>

\* _handle_start_failure that never degrades the provider.
_handle_start_failure_always_dead(c, inp) ==
  LET c1 == IF c.p.client # 0
            THEN [close(c, c.p.client, inp.close_raises) EXCEPT !.p.client = 0]
            ELSE c
  IN increment_version(SetState(record_failure(c1), DEAD))

\* A failed start that degrades the provider whatever the failures counted.
_handle_start_failure_always_degraded(c, inp) ==
  LET c1 == IF c.p.client # 0
            THEN [close(c, c.p.client, inp.close_raises) EXCEPT !.p.client = 0]
            ELSE c
  IN record_event(increment_version(SetState(record_failure(c1), DEGRADED)),
                  Event("ProviderDegraded"))

_handle_start_failure(c, inp) ==
  LET c1 == IF c.p.client # 0
            THEN [close(c, c.p.client, inp.close_raises) EXCEPT !.p.client = 0]
            ELSE c
      c2 == record_failure(c1)
  IN IF should_degrade(c2.p)
     THEN record_event(increment_version(SetState(c2, DEGRADED)), Event("ProviderDegraded"))
     ELSE increment_version(SetState(c2, DEAD))

Spawned(c) == Cardinality({i \in 1..MaxSpawn : c.procs[i] # "none"})

\* What a start can meet: the launcher raising, the handshake answering with an
\* error payload (ProviderStartError) or raising (any other exception), or
\* success; `offered`: the tools the child lists.
StartOutcomes == {"launch_raise", "init_error", "list_raise", "ok"}
RpcOutcomes == {"ok", "error", "raise"}

\* The inputs of one operation: what the child and the caller do during it.
Inp(start, offered, close_raises, tool, refresh, relisted, rpc) ==
  [start |-> start, offered |-> offered, close_raises |-> close_raises,
   tool |-> tool, refresh |-> refresh, relisted |-> relisted, rpc |-> rpc]

_start(c, inp) ==
  LET c1 == _transition_to(c, INITIALIZING)
      n == Spawned(c) + 1
      launched == [c1 EXCEPT !.procs[n] = "alive"]
      afterInit == call(launched, "initialize")
      afterList == call(afterInit, "tools/list")
      fail(x) == [_handle_start_failure(x, inp) EXCEPT !.raised = "ProviderStartError"]
  IN IF c1.raised # "none" THEN c1
     ELSE IF n > MaxSpawn /\ inp.start # "launch_raise" THEN [c1 EXCEPT !.capped = TRUE]
     ELSE IF inp.start = "launch_raise" THEN fail(c1)
     ELSE IF inp.start = "init_error" THEN fail(afterInit)
     ELSE IF inp.start = "list_raise" THEN fail(afterList)
     ELSE LET c2 == [afterList EXCEPT !.p.tools = inp.offered,
                                      !.p.client = n,
                                      !.p.meta = "set"]
              c3 == _transition_to(c2, READY)
              c4 == [record_success(c3) EXCEPT !.p.idle_for = 0]
          IN record_event(c4, Event("ProviderStarted"))

\* ensure_ready that starts the provider whatever state it is in.
ensure_ready_always_starting(c, inp) == _start(c, inp)

\* ensure_ready with a fast path that trusts the state and never asks the
\* client whether it is alive.
ensure_ready_trusting_state(c, inp) ==
  IF c.p.state = READY THEN c
  ELSE IF ~_can_start(c)[1]
       THEN [c EXCEPT !.raised = "CannotStartProviderError", !.retry_in = _can_start(c)[3]]
       ELSE IF c.p.state \in {COLD, DEAD, DEGRADED}
            THEN _start(c, inp)
            ELSE c

ensure_ready(c, inp) ==
  LET c1 == IF c.p.state = READY /\ ~is_alive(c, c.p.client)
            THEN SetState(c, DEAD)
            ELSE c
  IN IF c.p.state = READY /\ is_alive(c, c.p.client) THEN c
     ELSE IF ~_can_start(c1)[1]
          THEN [c1 EXCEPT !.raised = "CannotStartProviderError",
                          !.retry_in = _can_start(c1)[3]]
          ELSE IF c1.p.state \in {COLD, DEAD, DEGRADED}
               THEN _start(c1, inp)
               ELSE c1

_refresh_tools(c, inp) ==
  IF ~is_alive(c, c.p.client) THEN c
  ELSE LET c1 == call(c, "tools/list")
       IN IF inp.refresh = "ok" THEN [c1 EXCEPT !.p.tools = inp.relisted] ELSE c1

\* invoke_tool that counts an unknown tool as a failure of the provider.
invoke_tool_counting_not_found(c, inp) ==
  LET c1 == ensure_ready([c EXCEPT !.tool = inp.tool], inp)
      c2 == IF inp.tool \notin c1.p.tools THEN _refresh_tools(c1, inp) ELSE c1
      c3 == [call(record_event(c2, Event("ToolInvocationRequested")), "tools/call")
               EXCEPT !.answer = inp.rpc]
  IN IF c1.raised # "none" \/ c1.capped THEN c1
     ELSE IF inp.tool \notin c2.p.tools
          THEN [record_failure(c2) EXCEPT !.raised = "ToolNotFoundError"]
     ELSE IF inp.rpc = "error"
          THEN [record_event(record_invocation_failure(c3), Event("ToolInvocationFailed"))
                  EXCEPT !.raised = "ToolInvocationError"]
     ELSE IF inp.rpc = "raise"
          THEN [record_event(record_failure(c3), Event("ToolInvocationFailed"))
                  EXCEPT !.raised = "ToolInvocationError"]
     ELSE [record_event([record_success(c3) EXCEPT !.p.idle_for = 0],
                        Event("ToolInvocationCompleted"))
             EXCEPT !.ret = "result"]

\* invoke_tool returning the response whether or not it carries an error.
invoke_tool_returning_errors(c, inp) ==
  LET c1 == ensure_ready([c EXCEPT !.tool = inp.tool], inp)
      c2 == IF inp.tool \notin c1.p.tools THEN _refresh_tools(c1, inp) ELSE c1
      c3 == [call(record_event(c2, Event("ToolInvocationRequested")), "tools/call")
               EXCEPT !.answer = inp.rpc]
  IN IF c1.raised # "none" \/ c1.capped THEN c1
     ELSE IF inp.tool \notin c2.p.tools THEN [c2 EXCEPT !.raised = "ToolNotFoundError"]
     ELSE [record_event([record_success(c3) EXCEPT !.p.idle_for = 0],
                        Event("ToolInvocationCompleted"))
             EXCEPT !.ret = "result"]

invoke_tool(c, inp) ==
  LET c1 == ensure_ready([c EXCEPT !.tool = inp.tool], inp)
      c2 == IF inp.tool \notin c1.p.tools THEN _refresh_tools(c1, inp) ELSE c1
      c3 == [call(record_event(c2, Event("ToolInvocationRequested")), "tools/call")
               EXCEPT !.answer = inp.rpc]
  IN IF c1.raised # "none" \/ c1.capped THEN c1
     ELSE IF inp.tool \notin c2.p.tools THEN [c2 EXCEPT !.raised = "ToolNotFoundError"]
     ELSE IF inp.rpc = "error"
          THEN [record_event(record_invocation_failure(c3), Event("ToolInvocationFailed"))
                  EXCEPT !.raised = "ToolInvocationError"]
     ELSE IF inp.rpc = "raise"
          THEN [record_event(record_failure(c3), Event("ToolInvocationFailed"))
                  EXCEPT !.raised = "ToolInvocationError"]
     ELSE [record_event([record_success(c3) EXCEPT !.p.idle_for = 0],
                        Event("ToolInvocationCompleted"))
             EXCEPT !.ret = "result"]

\* health_check that records failures but never degrades the provider.
health_check_never_degrading(c, inp) ==
  IF c.p.state # READY THEN [c EXCEPT !.ret = "False"]
  ELSE IF ~is_alive(c, c.p.client)
       THEN [increment_version(SetState(c, DEAD)) EXCEPT !.ret = "False"]
  ELSE LET c1 == call(c, "tools/list")
       IN IF inp.rpc = "ok"
          THEN [record_event(record_success(c1), Event("HealthCheckPassed"))
                  EXCEPT !.ret = "True"]
          ELSE [record_event(record_failure(c1), Event("HealthCheckFailed"))
                  EXCEPT !.ret = "False"]

health_check(c, inp) ==
  IF c.p.state # READY THEN [c EXCEPT !.ret = "False"]
  ELSE IF ~is_alive(c, c.p.client)
       THEN [increment_version(SetState(c, DEAD)) EXCEPT !.ret = "False"]
  ELSE LET c1 == call(c, "tools/list")
       IN IF inp.rpc = "ok"
          THEN [record_event(record_success(c1), Event("HealthCheckPassed"))
                  EXCEPT !.ret = "True"]
          ELSE LET c2 == record_event(record_failure(c1), Event("HealthCheckFailed"))
               IN IF should_degrade(c2.p)
                  THEN [record_event(increment_version(SetState(c2, DEGRADED)),
                                     Event("ProviderDegraded"))
                          EXCEPT !.ret = "False"]
                  ELSE [c2 EXCEPT !.ret = "False"]

\* _shutdown_internal that keeps the client when close() raises.
_shutdown_internal_keeping_unclosed(c, inp, reason) ==
  LET c1 == IF c.p.client # 0
            THEN IF inp.close_raises THEN close(c, c.p.client, TRUE)
                 ELSE [close(c, c.p.client, FALSE) EXCEPT !.p.client = 0]
            ELSE c
      c2 == increment_version(SetState(c1, COLD))
      c3 == [c2 EXCEPT !.p.tools = {}, !.p.meta = "empty"]
  IN record_event(c3, [Event("ProviderStopped") EXCEPT !.reason = reason])

_shutdown_internal(c, inp, reason) ==
  LET c1 == IF c.p.client # 0
            THEN [close(c, c.p.client, inp.close_raises) EXCEPT !.p.client = 0]
            ELSE c
      c2 == increment_version(SetState(c1, COLD))
      c3 == [c2 EXCEPT !.p.tools = {}, !.p.meta = "empty"]
  IN record_event(c3, [Event("ProviderStopped") EXCEPT !.reason = reason])

\* maybe_shutdown_idle that shuts down as soon as the idle time equals the TTL.
maybe_shutdown_idle_at_ttl(c, inp) ==
  IF c.p.state # READY THEN [c EXCEPT !.ret = "False"]
  ELSE IF c.p.idle_for >= idle_ttl_s
       THEN [_shutdown_internal(record_event(c, Event("ProviderIdleDetected")), inp, "idle")
               EXCEPT !.ret = "True"]
       ELSE [c EXCEPT !.ret = "False"]

maybe_shutdown_idle(c, inp) ==
  IF c.p.state # READY THEN [c EXCEPT !.ret = "False"]
  ELSE IF c.p.idle_for > idle_ttl_s
       THEN [_shutdown_internal(record_event(c, Event("ProviderIdleDetected")), inp, "idle")
               EXCEPT !.ret = "True"]
       ELSE [c EXCEPT !.ret = "False"]

shutdown(c, inp) == _shutdown_internal(c, inp, "shutdown")

\* ------------------------------------------------------ ConcurrencyManager
\* Sentinel for "unlimited" concurrency.
UNLIMITED == 0
\* provider_limits has no entry for the provider.
NoLimitSet == -1
\* provider_semaphores: no entry yet (Absent), or the entry None (unlimited).
Absent == -1
NoSemaphore == 0

\* threading.Semaphore(limit): a new semaphore object, named by its position.
NewSemaphore(m, limit) == [m EXCEPT !.sems = Append(@, [permits |-> limit, limit |-> limit])]

get_provider_limit(m, p) ==
  IF m.provider_limits[p] = NoLimitSet THEN m.default_provider_limit
  ELSE m.provider_limits[p]

set_provider_limit(m, p, limit) ==
  LET m1 == [m EXCEPT !.provider_limits[p] = limit]
  IN IF limit > 0
     THEN [NewSemaphore(m1, limit) EXCEPT !.provider_semaphores[p] = Len(m1.sems) + 1]
     ELSE [m1 EXCEPT !.provider_semaphores[p] = NoSemaphore]

\* One semaphore handed to every provider: a provider without an entry gets
\* the semaphore some other provider already has.
_get_provider_semaphore_shared(m, p) ==
  IF m.provider_semaphores[p] # Absent THEN m
  ELSE IF \E q \in DOMAIN m.provider_semaphores : m.provider_semaphores[q] > 0
       THEN [m EXCEPT !.provider_semaphores[p] =
               CHOOSE s \in 1..Len(m.sems) :
                 \E q \in DOMAIN m.provider_semaphores : m.provider_semaphores[q] = s]
       ELSE LET limit == get_provider_limit(m, p)
            IN IF limit > 0
               THEN [NewSemaphore(m, limit) EXCEPT !.provider_semaphores[p] = Len(m.sems) + 1]
               ELSE [m EXCEPT !.provider_semaphores[p] = NoSemaphore]

\* The manager after _get_provider_semaphore(p); the semaphore is then
\* provider_semaphores[p] of the result.
_get_provider_semaphore(m, p) ==
  IF m.provider_semaphores[p] # Absent THEN m
  ELSE LET limit == get_provider_limit(m, p)
       IN IF limit > 0
          THEN [NewSemaphore(m, limit) EXCEPT !.provider_semaphores[p] = Len(m.sems) + 1]
          ELSE [m EXCEPT !.provider_semaphores[p] = NoSemaphore]

\* acquire(), first step: the non-blocking try on the global semaphore.
acquire_global(m, th) ==
  IF m.global_limit = UNLIMITED
  THEN [cm |-> m, th |-> [th EXCEPT !.pc = "have_global", !.ended = "none", !.stale = FALSE]]
  ELSE IF m.global_permits > 0
       THEN [cm |-> [m EXCEPT !.global_permits = @ - 1],
             th |-> [th EXCEPT !.pc = "have_global", !.held_global = TRUE,
                               !.ended = "none", !.stale = FALSE]]
       ELSE [cm |-> m, th |-> [th EXCEPT !.pc = "global_wait", !.had_to_wait = TRUE,
                                        !.ended = "none", !.stale = FALSE]]

\* acquire(): the blocking acquire of the global semaphore returns.
acquire_global_blocking(m, th) ==
  [cm |-> [m EXCEPT !.global_permits = @ - 1],
   th |-> [th EXCEPT !.pc = "have_global", !.held_global = TRUE]]

\* acquire(): provider_sem = self._get_provider_semaphore(provider_id).
acquire_get_semaphore(m, th) ==
  LET m1 == _get_provider_semaphore(m, th.provider)
  IN [cm |-> m1, th |-> [th EXCEPT !.pc = "have_sem", !.sem = m1.provider_semaphores[th.provider]]]

\* acquire() entering the scope whatever the non-blocking try on the provider
\* semaphore returned.
acquire_provider_ignoring_result(m, th) ==
  IF th.sem = NoSemaphore
  THEN [cm |-> m, th |-> [th EXCEPT !.pc = "inside"]]
  ELSE [cm |-> [m EXCEPT !.sems[th.sem].permits = IF @ > 0 THEN @ - 1 ELSE @],
        th |-> [th EXCEPT !.pc = "inside"]]

\* acquire() giving the global permit back while it waits for the provider
\* semaphore.
acquire_provider_yielding_global(m, th) ==
  IF th.sem = NoSemaphore
  THEN [cm |-> m, th |-> [th EXCEPT !.pc = "inside"]]
  ELSE IF m.sems[th.sem].permits > 0
       THEN [cm |-> [m EXCEPT !.sems[th.sem].permits = @ - 1],
             th |-> [th EXCEPT !.pc = "inside", !.held_sem = th.sem]]
       ELSE [cm |-> IF th.held_global THEN [m EXCEPT !.global_permits = @ + 1] ELSE m,
             th |-> [th EXCEPT !.pc = "provider_wait", !.had_to_wait = TRUE,
                               !.held_global = FALSE]]

\* acquire(): the non-blocking try on the provider semaphore; on success the
\* scope is entered (the yield).
acquire_provider(m, th) ==
  IF th.sem = NoSemaphore
  THEN [cm |-> m, th |-> [th EXCEPT !.pc = "inside"]]
  ELSE IF m.sems[th.sem].permits > 0
       THEN [cm |-> [m EXCEPT !.sems[th.sem].permits = @ - 1],
             th |-> [th EXCEPT !.pc = "inside", !.held_sem = th.sem]]
       ELSE [cm |-> m, th |-> [th EXCEPT !.pc = "provider_wait", !.had_to_wait = TRUE]]

\* acquire(): the blocking acquire of the provider semaphore returns.
acquire_provider_blocking(m, th) ==
  [cm |-> [m EXCEPT !.sems[th.sem].permits = @ - 1],
   th |-> [th EXCEPT !.pc = "inside", !.held_sem = th.sem]]

\* acquire(), the finally clause: the scope is left (exc: by an exception raised
\* in the body) and the provider semaphore released.
\* The finally clause releasing the semaphore the provider has now instead of
\* the one the thread acquired.
release_provider_current(m, th, exc) ==
  LET cur == m.provider_semaphores[th.provider]
  IN [cm |-> IF cur > 0 THEN [m EXCEPT !.sems[cur].permits = @ + 1] ELSE m,
      th |-> [th EXCEPT !.pc = "provider_released", !.exc = exc, !.held_sem = 0]]

\* Leaving the scope by releasing the global semaphore first, the provider
\* semaphore still held.
release_provider_global_first(m, th, exc) ==
  [cm |-> IF m.global_limit # UNLIMITED THEN [m EXCEPT !.global_permits = @ + 1] ELSE m,
   th |-> [th EXCEPT !.pc = "provider_released", !.exc = exc, !.held_global = FALSE]]

\* The finally clause skipping the release when the body raised.
release_provider_unless_raised(m, th, exc) ==
  [cm |-> IF th.sem # NoSemaphore /\ ~exc THEN [m EXCEPT !.sems[th.sem].permits = @ + 1]
          ELSE m,
   th |-> [th EXCEPT !.pc = "provider_released", !.exc = exc, !.held_sem = 0]]

release_provider(m, th, exc) ==
  [cm |-> IF th.sem # NoSemaphore THEN [m EXCEPT !.sems[th.sem].permits = @ + 1] ELSE m,
   th |-> [th EXCEPT !.pc = "provider_released", !.exc = exc, !.held_sem = 0]]

\* Leaving acquire() without giving the global permit back.
release_global_never(m, th) ==
  [cm |-> m,
   th |-> [th EXCEPT !.pc = "idle", !.sem = 0, !.had_to_wait = FALSE, !.exc = FALSE,
                     !.held_global = FALSE, !.ended = "normal"]]

\* acquire(), the except BaseException and else clauses: the global semaphore
\* is released and acquire() is over.
release_global(m, th) ==
  [cm |-> IF m.global_limit # UNLIMITED THEN [m EXCEPT !.global_permits = @ + 1] ELSE m,
   th |-> [th EXCEPT !.pc = "idle", !.sem = 0, !.had_to_wait = FALSE, !.exc = FALSE,
                     !.held_global = FALSE,
                     !.ended = IF th.exc THEN "exception" ELSE "normal"]]

\* acquire(): the acquisition of the provider semaphore raises before the scope
\* is entered; the except BaseException clause releases the global semaphore
\* and the exception leaves acquire().
\* The except clause releasing the provider semaphore as well.
acquire_raises_releasing_both(m, th) ==
  LET m1 == IF m.global_limit # UNLIMITED THEN [m EXCEPT !.global_permits = @ + 1] ELSE m
  IN [cm |-> IF th.sem # NoSemaphore THEN [m1 EXCEPT !.sems[th.sem].permits = @ + 1]
             ELSE m1,
      th |-> [th EXCEPT !.pc = "idle", !.sem = 0, !.had_to_wait = FALSE, !.exc = FALSE,
                        !.held_global = FALSE, !.ended = "failed"]]

acquire_raises(m, th) ==
  [cm |-> IF m.global_limit # UNLIMITED THEN [m EXCEPT !.global_permits = @ + 1] ELSE m,
   th |-> [th EXCEPT !.pc = "idle", !.sem = 0, !.had_to_wait = FALSE, !.exc = FALSE,
                     !.held_global = FALSE, !.ended = "failed"]]

\* ------------------------------------------------------------ actions
Threads == {"t1", "t2", "t3"}
Providers == {"A", "B"}

\* A manager nobody has configured or used, and threads outside acquire().
\* held_global, held_sem: the permits the thread holds; ended: how its last
\* acquire() ended, while that is the latest step of the manager; calls: the
\* acquire() calls it has made, where they are counted; stale: the provider's
\* limit has been set since the thread called acquire().
IdleThread == [pc |-> "idle", provider |-> "A", sem |-> 0, had_to_wait |-> FALSE,
               exc |-> FALSE, held_global |-> FALSE, held_sem |-> 0, ended |-> "none",
               calls |-> 0, stale |-> FALSE]

InitCmIdle ==
  /\ cm = [global_limit |-> UNLIMITED, global_permits |-> 0,
           default_provider_limit |-> UNLIMITED,
           provider_limits |-> [p \in Providers |-> NoLimitSet],
           provider_semaphores |-> [p \in Providers |-> Absent],
           sems |-> <<>>]
  /\ thr = [t \in Threads |-> IdleThread]

InitProvider ==
  [state |-> COLD, client |-> 0, version |-> 0, consecutive_failures |-> 0,
   since_failure |-> 0, tools |-> {}, meta |-> "empty", idle_for |-> 0]

NoOp == [op |-> "none", raised |-> "none", ret |-> "none", writes |-> <<>>,
         events |-> <<>>, rpcs |-> <<>>, v0 |-> 0, s0 |-> COLD, client0 |-> 0,
         alive0 |-> FALSE, retry_in |-> 0, closes |-> <<>>, tool |-> "",
         answer |-> "none", run |-> 0, run_cf0 |-> 0, p0 |-> InitProvider,
         procs0 |-> [i \in 1..MaxSpawn |-> "none"]]

InitProv ==
  /\ provider = InitProvider
  /\ procs = [i \in 1..MaxSpawn |-> "none"]
  /\ last = NoOp

Init == InitProv /\ InitCmIdle /\ InitBatchIdle /\ InitInfraIdle

\* The number of ensure_ready calls, counted from one made in state COLD, that
\* have failed one after the other with no other operation in between
\* (counted up to one past the threshold).
FailedRun(name, c) ==
  IF name = "ensure_ready" /\ c.raised # "none"
  THEN IF provider.state = COLD THEN 1
       ELSE IF last.run > 0 THEN Min(last.run + 1, max_consecutive_failures + 1)
       ELSE 0
  ELSE 0

\* An operation's result becomes the new state; operations that would pass a
\* bound of the model are not taken.
Commit(name, c) ==
  /\ ~c.capped
  /\ c.p.version <= MaxVersion
  /\ c.p.consecutive_failures <= MaxCF
  /\ provider' = c.p
  /\ procs' = c.procs
  /\ last' = [op |-> name, raised |-> c.raised, ret |-> c.ret, writes |-> c.writes,
              events |-> c.events, rpcs |-> c.rpcs, v0 |-> provider.version,
              s0 |-> provider.state, client0 |-> provider.client,
              alive0 |-> is_alive(Ctx, provider.client), retry_in |-> c.retry_in,
              closes |-> c.closes, tool |-> c.tool, answer |-> c.answer,
              run |-> FailedRun(name, c),
              run_cf0 |-> IF FailedRun(name, c) = 0 THEN 0
                          ELSE IF provider.state = COLD THEN provider.consecutive_failures
                          ELSE last.run_cf0,
              p0 |-> provider, procs0 |-> procs]
  /\ UNCHANGED <<infraVars, cmVars, batchVars>>

Fast == provider.state = READY /\ is_alive(Ctx, provider.client)

\* The inputs each operation reads in the current state; an input it does not
\* read is held at one value.
StartChoices == IF Fast THEN {"ok"} ELSE StartOutcomes
OfferedChoices(start) == IF ~Fast /\ start = "ok" THEN SUBSET ToolNames ELSE {{}}
StartCloseChoices(start) ==
  IF ~Fast /\ provider.client # 0 /\ start # "ok" THEN BOOLEAN ELSE {FALSE}
ToolChoices(start) == IF Fast \/ start = "ok" THEN RequestedTools ELSE {"add"}
Catalog(offered) == IF Fast THEN provider.tools ELSE offered
RefreshChoices(start, offered, tool) ==
  IF (Fast \/ start = "ok") /\ tool \notin Catalog(offered) THEN RpcOutcomes ELSE {"ok"}
RelistedChoices(start, offered, tool, refresh) ==
  IF (Fast \/ start = "ok") /\ tool \notin Catalog(offered) /\ refresh = "ok"
  THEN SUBSET ToolNames ELSE {{}}
CallChoices(start, tool) ==
  IF (Fast \/ start = "ok") /\ tool \in ToolNames THEN RpcOutcomes ELSE {"ok"}
CloseChoices == IF provider.client # 0 THEN BOOLEAN ELSE {FALSE}

EnsureReady ==
  \E start \in StartChoices : \E offered \in OfferedChoices(start) :
  \E close_raises \in StartCloseChoices(start) :
    Commit("ensure_ready",
           ensure_ready(Ctx, Inp(start, offered, close_raises, "add", "ok", {}, "ok")))

InvokeTool ==
  \E start \in StartChoices : \E offered \in OfferedChoices(start) :
  \E close_raises \in StartCloseChoices(start) : \E tool \in ToolChoices(start) :
  \E refresh \in RefreshChoices(start, offered, tool) :
  \E relisted \in RelistedChoices(start, offered, tool, refresh) :
  \E rpc \in CallChoices(start, tool) :
    Commit("invoke_tool",
           invoke_tool(Ctx, Inp(start, offered, close_raises, tool, refresh, relisted, rpc)))

HealthCheck ==
  \E rpc \in (IF Fast THEN RpcOutcomes ELSE {"ok"}) :
    Commit("health_check", health_check(Ctx, Inp("ok", {}, FALSE, "add", "ok", {}, rpc)))

MaybeShutdownIdle ==
  \E close_raises \in (IF provider.state = READY THEN CloseChoices ELSE {FALSE}) :
    Commit("maybe_shutdown_idle",
           maybe_shutdown_idle(Ctx, Inp("ok", {}, close_raises, "add", "ok", {}, "ok")))

Shutdown ==
  \E close_raises \in CloseChoices :
    Commit("shutdown", shutdown(Ctx, Inp("ok", {}, close_raises, "add", "ok", {}, "ok")))

\* The child of a client exits (crash, kill, EOF on its stdout).
ClientDies ==
  \E n \in 1..MaxSpawn :
    /\ procs[n] = "alive"
    /\ procs' = [procs EXCEPT ![n] = "dead"]
    /\ last' = [NoOp EXCEPT !.op = "env", !.run = last.run, !.run_cf0 = last.run_cf0]
    /\ UNCHANGED <<infraVars, provider, cmVars, batchVars>>

\* Time passes; the elapsed times saturate where the code stops telling them apart.
Tick ==
  /\ provider' = [provider EXCEPT
        !.since_failure = Min(@ + 1, Backoff(provider.consecutive_failures)),
        !.idle_for = Min(@ + 1, idle_ttl_s + 1)]
  /\ last' = [NoOp EXCEPT !.op = "env", !.run = last.run, !.run_cf0 = last.run_cf0]
  /\ UNCHANGED <<infraVars, procs, cmVars, batchVars>>

NextProvider ==
  \/ EnsureReady
  \/ InvokeTool
  \/ HealthCheck
  \/ MaybeShutdownIdle
  \/ Shutdown
  \/ ClientDies
  \/ Tick

Spec == Init /\ [][NextProvider]_vars

\* ------------------------------------------- ConcurrencyManager with fixed limits
\* Largest limit a manager is configured with.
MaxLimit == 2

\* ConcurrencyManager(global_limit, default_provider_limit), then optionally
\* set_provider_limit("A", l) as init_concurrency_manager does for its overrides.
NewManager(g, d) ==
  [global_limit |-> g, global_permits |-> g,
   default_provider_limit |-> d,
   provider_limits |-> [p \in Providers |-> NoLimitSet],
   provider_semaphores |-> [p \in Providers |-> Absent],
   sems |-> <<>>]

ConfiguredManagers ==
  {NewManager(g, d) : g \in 0..MaxLimit, d \in 0..MaxLimit}
  \cup {set_provider_limit(NewManager(g, d), "A", l) :
          g \in 0..MaxLimit, d \in 0..MaxLimit, l \in 0..MaxLimit}

InitCM ==
  /\ InitProv
  /\ cm \in ConfiguredManagers
  /\ thr = [t \in Threads |-> IdleThread]
  /\ InitBatchIdle
  /\ InitInfraIdle

\* One step of thread t; `ended` of the other threads is no longer the latest.
Step(t, r) ==
  /\ cm' = r.cm
  /\ thr' = [u \in Threads |-> IF u = t THEN r.th ELSE [thr[u] EXCEPT !.ended = "none"]]
  /\ UNCHANGED <<infraVars, provVars, batchVars>>

AcquireGlobal ==
  \E t \in Threads : \E p \in Providers :
    /\ thr[t].pc = "idle"
    /\ Step(t, acquire_global(cm, [thr[t] EXCEPT !.provider = p]))

AcquireGlobalBlockingOf(t) ==
  /\ thr[t].pc = "global_wait"
  /\ cm.global_permits > 0
  /\ Step(t, acquire_global_blocking(cm, thr[t]))

AcquireGlobalBlocking == \E t \in Threads : AcquireGlobalBlockingOf(t)

AcquireGetSemaphoreOf(t) ==
  /\ thr[t].pc = "have_global"
  /\ Step(t, acquire_get_semaphore(cm, thr[t]))

AcquireGetSemaphore == \E t \in Threads : AcquireGetSemaphoreOf(t)

AcquireProviderOf(t) ==
  /\ thr[t].pc = "have_sem"
  /\ Step(t, acquire_provider(cm, thr[t]))

AcquireProvider == \E t \in Threads : AcquireProviderOf(t)

AcquireProviderBlockingOf(t) ==
  /\ thr[t].pc = "provider_wait"
  /\ cm.sems[thr[t].sem].permits > 0
  /\ Step(t, acquire_provider_blocking(cm, thr[t]))

AcquireProviderBlocking == \E t \in Threads : AcquireProviderBlockingOf(t)

ReleaseProviderOf(t) ==
  \E exc \in BOOLEAN :
    /\ thr[t].pc = "inside"
    /\ Step(t, release_provider(cm, thr[t], exc))

ReleaseProvider == \E t \in Threads : ReleaseProviderOf(t)

ReleaseGlobalOf(t) ==
  /\ thr[t].pc = "provider_released"
  /\ Step(t, release_global(cm, thr[t]))

ReleaseGlobal == \E t \in Threads : ReleaseGlobalOf(t)

\* The acquisition of the provider semaphore raises (the lookup, the
\* non-blocking try, or the blocking acquire while waiting).
AcquireRaises ==
  \E t \in Threads :
    /\ thr[t].pc \in {"have_global", "have_sem", "provider_wait"}
    /\ Step(t, acquire_raises(cm, thr[t]))

NextCM ==
  \/ AcquireGlobal
  \/ AcquireGlobalBlocking
  \/ AcquireGetSemaphore
  \/ AcquireProvider
  \/ AcquireProviderBlocking
  \/ ReleaseProvider
  \/ ReleaseGlobal
  \/ AcquireRaises

SpecCM == InitCM /\ [][NextCM]_vars

\* Threads inside the acquire scope (between the yield and the finally clause).
Inside(p) == {t \in Threads : thr[t].pc = "inside" /\ thr[t].provider = p}
InsideAny == {t \in Threads : thr[t].pc = "inside"}

\* C4: with fixed limits, the threads inside the scope for provider p never
\* exceed its limit when it has one, and all the threads inside any scope never
\* exceed the global limit when there is one (so the stricter of the two binds).
C4_LimitsRespected ==
  /\ \A p \in Providers :
       get_provider_limit(cm, p) > 0 => Cardinality(Inside(p)) <= get_provider_limit(cm, p)
  /\ cm.global_limit > 0 => Cardinality(InsideAny) <= cm.global_limit

\* Both limits bind at once: the global limit is full while provider A, whose
\* own limit is smaller, is full too and a thread waits for each.
C4_Witness ==
  /\ cm.global_limit = 2 /\ get_provider_limit(cm, "A") = 1
  /\ Cardinality(InsideAny) = 2 /\ Cardinality(Inside("A")) = 1
  /\ \E t \in Threads : thr[t].pc = "global_wait"

\* ------------------------------------------------------------ Provider claims
PublicOps == {"ensure_ready", "invoke_tool", "health_check", "maybe_shutdown_idle", "shutdown"}

\* The state changes among the writes of the last operation, as <<old, new>>.
RECURSIVE Changes(_)
Changes(ws) ==
  IF ws = <<>> THEN <<>>
  ELSE IF Head(ws).old = Head(ws).new THEN Changes(Tail(ws))
       ELSE <<(<<Head(ws).old, Head(ws).new>>)>> \o Changes(Tail(ws))

\* The ProviderStateChanged events of a list of events, as <<old_state, new_state>>.
RECURSIVE StateChangedEvents(_)
StateChangedEvents(es) ==
  IF es = <<>> THEN <<>>
  ELSE IF Head(es).type = "ProviderStateChanged"
       THEN <<(<<Head(es).old_state, Head(es).new_state>>)>> \o StateChangedEvents(Tail(es))
       ELSE StateChangedEvents(Tail(es))

\* The version the aggregate has once the k-th state write of the last operation
\* and the code that accompanies it are done: the version at the next write,
\* or at the end of the operation.
VersionAfterWrite(k) ==
  IF k < Len(last.writes) THEN last.writes[k + 1].version ELSE provider.version

\* C1: every write to the provider's state made by a public operation, through
\* _transition_to or by direct assignment, goes from s to a state in
\* VALID_TRANSITIONS[s] or leaves the state as it is.
C1_EveryWriteIsAllowed ==
  \A k \in 1..Len(last.writes) :
    \/ last.writes[k].new = last.writes[k].old
    \/ last.writes[k].new \in VALID_TRANSITIONS[last.writes[k].old]

\* C2 (as stated): in every state observable under the lock, READY implies a
\* non-null client that is alive.
C2_ReadyImpliesAlive ==
  provider.state = READY => is_alive(Ctx, provider.client)

\* C2 (amended): READY implies a non-null client the provider has not closed, and
\* the client is alive when ensure_ready returns normally; the child may exit
\* afterwards while the state stays READY.
C2_ReadyHasClientAliveOnReturn ==
  /\ provider.state = READY =>
       provider.client # 0 /\ procs[provider.client] \in {"alive", "dead"}
  /\ last.op = "ensure_ready" /\ last.raised = "none" =>
       provider.state = READY /\ is_alive(Ctx, provider.client)

C2_Witness ==
  /\ last.op = "ensure_ready" /\ last.raised = "none"
  /\ last.s0 = READY /\ ~last.alive0
  /\ provider.state = READY /\ provider.client # last.client0

\* C3: once a public operation has returned with the state COLD, DEAD or
\* DEGRADED, the client reference is null.
C3_ClientOnlyWhileReady ==
  last.op \in PublicOps /\ provider.state \in {COLD, DEAD, DEGRADED} => provider.client = 0

\* C8: the ProviderStateChanged events an operation records are exactly the
\* changes of state it made, in order, so replaying them from the state before
\* the operation gives the states gone through and ends in the current state.
C8_EventsReconstructTrajectory ==
  StateChangedEvents(last.events) = Changes(last.writes)

\* C9: the version never decreases, and every change of state is accompanied by
\* an increment: the version is greater after each change than before it.
C9_VersionIncrementsOnEveryChange ==
  /\ provider.version >= last.v0
  /\ \A k \in 1..Len(last.writes) :
       last.writes[k].new # last.writes[k].old => VersionAfterWrite(k) > last.writes[k].version

\* ================================================================ BatchExecutor
\* The provider registry of the application context.
KnownProviders == {"A"}

\* The calls a batch may hold: to the registered provider or to an unknown one.
CallSpecs == [provider : {"A", "missing"}, tool : {"add"}]

\* hangar_call builds CallSpec(index=i, call_id=...) by enumerating the calls.
MakeCalls(specs) ==
  [i \in Indexes |-> [index |-> i, call_id |-> <<"call", i>>,
                      provider |-> specs[i].provider, tool |-> specs[i].tool]]

effective_workers(m, max_concurrency) ==
  IF m.global_limit > 0 THEN Min(max_concurrency, m.global_limit) ELSE max_concurrency

\* _execute_call, the circuit breaker test.
circuit_never_open(p) == FALSE

circuit_open(p) == should_degrade(p)

\* execute(), "Fill in cancelled/timed out calls", leaving the None entries.
fill_in_nothing(results, calls, cancel) == results

\* execute(), "Fill in cancelled/timed out calls".
fill_in(results, calls, cancel) ==
  [i \in DOMAIN results |->
     IF results[i] = NoResult
     THEN CallResult(calls[i], FALSE,
                     IF cancel THEN "CancellationError" ELSE "TimeoutError")
     ELSE results[i]]

\* `[r for r in results if r is not None]`, from position i on.
RECURSIVE final_results(_, _)
final_results(results, i) ==
  IF i \notin DOMAIN results THEN <<>>
  ELSE IF results[i] = NoResult THEN final_results(results, i + 1)
       ELSE <<results[i]>> \o final_results(results, i + 1)

\* How the truncation manager is set up for a batch: none configured, or one
\* whose total-size budget the results stay within or exceed.
TruncationSetups == {"none", "within", "over"}

\* TruncationManager.process_batch: results over the budget are marked
\* truncated; none is dropped or moved. A payload that is still there is
\* moved to the response cache under a new continuation id.
process_batch(rs, setup) ==
  [k \in DOMAIN rs |->
     IF setup = "over" /\ rs[k].success
     THEN IF rs[k].result = "None" THEN [rs[k] EXCEPT !.truncated = TRUE]
          ELSE [rs[k] EXCEPT !.truncated = TRUE, !.result = "None",
                             !.continuation_id = "cont"]
     ELSE rs[k]]

_apply_batch_truncation(rs, setup) ==
  IF setup = "none" THEN rs ELSE process_batch(rs, setup)

\* The provider a batch can find when it begins, each reached by the
\* aggregate's own operations from a new provider: untouched; started; degraded
\* by max_consecutive_failures failed starts; and that one after shutdown().
FreshCtx == CtxOf(InitProvider, [i \in 1..MaxSpawn |-> "none"])

RECURSIVE FailedStarts(_, _)
FailedStarts(c, k) ==
  IF k = 0 THEN c
  ELSE FailedStarts(
         [ensure_ready(c, Inp("launch_raise", {}, FALSE, "add", "ok", {}, "ok"))
            EXCEPT !.raised = "none"], k - 1)

BatchStartProviders ==
  LET ok == Inp("ok", ToolNames, FALSE, "add", "ok", {}, "ok")
      degraded == FailedStarts(FreshCtx, max_consecutive_failures)
      waited == [degraded EXCEPT
                   !.p.since_failure = Backoff(degraded.p.consecutive_failures)]
  IN {FreshCtx, degraded, waited, shutdown(degraded, ok)}

\* The managers a batch runs under, with the threads of other batches: one
\* limiting only the calls per provider, nobody else using it; and one limiting
\* only the calls overall, a call of another batch to provider B in flight.
BatchManagers ==
  LET t0 == [IdleThread EXCEPT !.provider = "B"]
      r1 == acquire_global(NewManager(MaxLimit, UNLIMITED), t0)
      r2 == acquire_get_semaphore(r1.cm, r1.th)
      r3 == acquire_provider(r2.cm, r2.th)
  IN {[cm |-> NewManager(UNLIMITED, 1), thr |-> [t \in Threads |-> IdleThread]],
      [cm |-> r3.cm, thr |-> [t \in Threads |-> IF t = "t1" THEN r3.th ELSE IdleThread]]}

InitBatch ==
  /\ \E c \in BatchStartProviders : provider = c.p /\ procs = c.procs
  /\ last = NoOp
  /\ \E m \in BatchManagers : cm = m.cm /\ thr = m.thr
  /\ InitBatchIdle
  /\ InitInfraIdle

NoOut == [results |-> <<>>, success |-> FALSE, total |-> 0, succeeded |-> 0,
          failed |-> 0, cancelled |-> 0]

\* execute() up to the submission of every call to the pool.
Begin ==
  /\ batch.pc = "idle"
  /\ \E specs \in [Indexes -> CallSpecs] : \E fail_fast \in BOOLEAN :
     \E max_concurrency \in 1..NCalls :
       /\ batch' = [pc |-> "collecting", calls |-> MakeCalls(specs),
                    fail_fast |-> fail_fast,
                    workers |-> effective_workers(cm, max_concurrency),
                    cancel |-> FALSE, expired |-> FALSE, timed_out |-> FALSE,
                    first |-> TRUE, pending |-> Indexes, ready |-> {},
                    results |-> [i \in Indexes |-> NoResult],
                    succeeded |-> 0, failed |-> 0, cancelled |-> 0,
                    events |-> <<[type |-> "BatchInvocationRequested", index |-> -1]>>,
                    out |-> NoOut, faults |-> FALSE,
                    state0 |-> provider.state, open0 |-> should_degrade(provider),
                    spawned0 |-> Spawned(Ctx), starts |-> 0, inits |-> 0]
       /\ wk' = [i \in Indexes |->
                   [IdleWorker EXCEPT !.pc = "queued", !.provider = specs[i].provider]]
  /\ UNCHANGED <<infraVars, provVars, cmVars, flight>>

\* ------------------------------------------------- _execute_call, per call
\* What a start made for a batch's command can meet.
BatchStartChoices == IF Fast THEN {"ok"} ELSE {"launch_raise", "ok"}

Finish(w, result) == [w EXCEPT !.pc = "finished", !.result = result]

Running == {i \in Indexes : wk[i].pc \notin {"unsubmitted", "queued", "finished"}}

\* What the commands of a batch did to the provider, for the record of the
\* run; fault: the child or the result failed the command (a launch that
\* raises, an RPC that fails, a result json.dumps rejects).
Note(c, fault) ==
  [batch EXCEPT
     !.starts = @ + Cardinality({k \in 1..Len(c.events) : c.events[k].type = "ProviderStarted"}),
     !.inits = @ + Cardinality({k \in 1..Len(c.writes) : c.writes[k].new = INITIALIZING}),
     !.faults = @ \/ fault]

\* A pool thread takes the next work item of the queue.
StartWorker ==
  \E i \in Indexes :
    /\ batch.pc \in {"collecting", "joining"}
    /\ wk[i].pc = "queued"
    /\ \A j \in Indexes : j < i => wk[j].pc # "queued"
    /\ Cardinality(Running) < batch.workers
    /\ wk' = [wk EXCEPT ![i].pc = "check_cancel"]
    /\ UNCHANGED <<infraVars, provVars, cmVars, batch, flight>>

\* The cancel signal never seen by a call.
cancel_never_set(b) == FALSE

\* cancel_event.is_set()
cancel_is_set(b) == b.cancel

\* "Check cancellation before starting".
CheckCancel ==
  \E i \in Indexes :
    /\ wk[i].pc = "check_cancel"
    /\ wk' = [wk EXCEPT ![i] =
                IF cancel_is_set(batch)
                THEN Finish([@ EXCEPT !.cancelled_at = "start"],
                            CallResult(batch.calls[i], FALSE, "CancellationError"))
                ELSE [@ EXCEPT !.pc = "check_timeout"]]
    /\ UNCHANGED <<infraVars, provVars, cmVars, batch, flight>>

\* global_timeout - elapsed, with call.timeout None: one unit until the
\* deadline has passed, nothing after it.
remaining_global(b) == IF b.expired THEN 0 ELSE 1

\* do_invoke building its command with no timeout at all.
do_invoke_untimed(spec, timeout) ==
  [type |-> "InvokeToolCommand", provider_id |-> spec.provider, tool_name |-> spec.tool,
   timeout |-> 0]

\* do_invoke: the InvokeToolCommand sent on the command bus.
do_invoke(spec, timeout) ==
  [type |-> "InvokeToolCommand", provider_id |-> spec.provider, tool_name |-> spec.tool,
   timeout |-> timeout]

\* "Calculate effective timeout" and "Get provider".
CheckTimeout ==
  \E i \in Indexes :
    /\ wk[i].pc = "check_timeout"
    /\ wk' = [wk EXCEPT ![i] =
                IF remaining_global(batch) <= 0
                THEN Finish(@, CallResult(batch.calls[i], FALSE, "TimeoutError"))
                ELSE IF batch.calls[i].provider \notin KnownProviders
                     THEN Finish([@ EXCEPT !.did = @ \cup {"get_provider"},
                                           !.effective_timeout = remaining_global(batch)],
                                 CallResult(batch.calls[i], FALSE, "ProviderNotFoundError"))
                     ELSE [@ EXCEPT !.pc = "circuit", !.did = @ \cup {"get_provider"},
                                    !.effective_timeout = remaining_global(batch)]]
    /\ UNCHANGED <<infraVars, provVars, cmVars, batch, flight>>

\* "Check circuit breaker / health degradation".
CircuitBreaker ==
  \E i \in Indexes :
    /\ wk[i].pc = "circuit"
    /\ wk' = [wk EXCEPT ![i] =
                IF circuit_open(provider)
                THEN Finish([@ EXCEPT !.saw_open = should_degrade(provider),
                                      !.did = @ \cup {"circuit_breaker"}],
                            CallResult(batch.calls[i], FALSE, "CircuitBreakerOpen"))
                ELSE [@ EXCEPT !.pc = "cold_check", !.saw_open = should_degrade(provider),
                               !.did = @ \cup {"circuit_breaker"}]]
    /\ UNCHANGED <<infraVars, provVars, cmVars, batch, flight>>

\* `provider_obj.state.value == "cold"`.
ColdCheck ==
  \E i \in Indexes :
    /\ wk[i].pc = "cold_check"
    /\ wk' = [wk EXCEPT ![i].pc = IF provider.state = COLD THEN "sf_enter" ELSE "check_cancel2"]
    /\ UNCHANGED <<infraVars, provVars, cmVars, batch, flight>>

\* SingleFlight.do(key, fn): the first caller becomes the leader and runs fn,
\* a caller arriving while fn is in flight waits for the leader's outcome.
SingleFlightEnter ==
  \E i \in Indexes :
    /\ wk[i].pc = "sf_enter"
    /\ IF flight.leader = NoLeader
       THEN /\ flight' = [flight EXCEPT !.leader = i]
            /\ wk' = [wk EXCEPT ![i].pc = "sf_leader", ![i].sf = "leader",
                                ![i].did = @ \cup {"cold_start"}]
       ELSE /\ flight' = [flight EXCEPT !.waiters = @ \cup {i}]
            /\ wk' = [wk EXCEPT ![i].pc = "sf_wait", ![i].sf = "joined",
                                ![i].did = @ \cup {"cold_start"}]
    /\ UNCHANGED <<infraVars, provVars, cmVars, batch>>

\* The leader's fn: command_bus.send(StartProviderCommand), handled by
\* Provider.ensure_ready(); the leader and the joined callers get its outcome.
SingleFlightRun ==
  \E i \in Indexes : \E start \in BatchStartChoices :
    LET c == ensure_ready(Ctx, Inp(start, ToolNames, FALSE, "add", "ok", {}, "ok"))
        after(j, w) ==
          IF j # i /\ j \notin flight.waiters THEN w
          ELSE LET w1 == IF j = i
                         THEN [w EXCEPT !.sent = Append(@, "StartProviderCommand"),
                                        !.rpc = @ \/ c.rpcs # <<>>]
                         ELSE w
               IN IF c.raised # "none"
                  THEN Finish(w1, CallResult(batch.calls[j], FALSE, "ProviderStartError"))
                  ELSE [w1 EXCEPT !.pc = "check_cancel2"]
    IN /\ wk[i].pc = "sf_leader"
       /\ ~c.capped
       /\ provider' = c.p
       /\ procs' = c.procs
       /\ batch' = Note(c, start # "ok")
       /\ wk' = [j \in Indexes |-> after(j, wk[j])]
       /\ flight' = NoFlight
       /\ UNCHANGED <<infraVars, last, cmVars>>

\* "Check cancellation after cold start".
CheckCancelAfterStart ==
  \E i \in Indexes :
    /\ wk[i].pc = "check_cancel2"
    /\ wk' = [wk EXCEPT ![i] =
                IF cancel_is_set(batch)
                THEN Finish([@ EXCEPT !.cancelled_at = "after_start"],
                            CallResult(batch.calls[i], FALSE, "CancellationError"))
                ELSE [@ EXCEPT !.pc = "idle"]]
    /\ UNCHANGED <<infraVars, provVars, cmVars, batch, flight>>

\* `with cm.acquire(call.provider)`: one step of acquire() by the call's thread.
WStep(i, r) ==
  /\ cm' = r.cm
  /\ wk' = [wk EXCEPT ![i] = r.th]
  /\ UNCHANGED <<infraVars, provVars, thr, batch, flight>>

WAcquireGlobal ==
  \E i \in Indexes :
    /\ wk[i].pc = "idle"
    /\ WStep(i, acquire_global(cm, [wk[i] EXCEPT !.did = @ \cup {"acquire"}]))

WAcquireGlobalBlocking ==
  \E i \in Indexes :
    /\ wk[i].pc = "global_wait"
    /\ cm.global_permits > 0
    /\ WStep(i, acquire_global_blocking(cm, wk[i]))

WAcquireGetSemaphore ==
  \E i \in Indexes : wk[i].pc = "have_global" /\ WStep(i, acquire_get_semaphore(cm, wk[i]))

WAcquireProvider ==
  \E i \in Indexes :
    /\ wk[i].pc = "have_sem"
    /\ LET r == acquire_provider(cm, wk[i])
       IN WStep(i, [r EXCEPT !.th.entered = (r.th.pc = "inside")])

WAcquireProviderBlocking ==
  \E i \in Indexes :
    /\ wk[i].pc = "provider_wait"
    /\ cm.sems[wk[i].sem].permits > 0
    /\ WStep(i, [acquire_provider_blocking(cm, wk[i]) EXCEPT !.th.entered = TRUE])

\* _invoke_with_retry without retries: command_bus.send(InvokeToolCommand),
\* handled by Provider.invoke_tool(); then the size test on the serialised
\* result (big: over MAX_RESPONSE_SIZE_BYTES; serializable: json.dumps accepts it).
_invoke_with_retry(spec, c, big, serializable) ==
  IF c.raised # "none" THEN [result |-> CallResult(spec, FALSE, c.raised), raised |-> "none"]
  ELSE IF ~serializable THEN [result |-> NoResult, raised |-> "TypeError"]
  ELSE [result |-> IF big
                   THEN [CallResult(spec, TRUE, "None") EXCEPT !.truncated = TRUE,
                                                               !.result = "None"]
                   ELSE CallResult(spec, TRUE, "None"),
        raised |-> "none"]

Invoke ==
  \E i \in Indexes : \E start \in BatchStartChoices :
  \E rpc \in (IF start = "ok" THEN RpcOutcomes ELSE {"ok"}) :
  \E big \in (IF start = "ok" /\ rpc = "ok" THEN BOOLEAN ELSE {FALSE}) :
  \E serializable \in (IF start = "ok" /\ rpc = "ok" /\ ~big THEN BOOLEAN ELSE {TRUE}) :
    LET spec == batch.calls[i]
        c == invoke_tool(Ctx, Inp(start, ToolNames, FALSE, spec.tool, "ok", ToolNames, rpc))
        r == _invoke_with_retry(spec, c, big, serializable)
    IN /\ wk[i].pc = "inside"
       /\ ~c.capped
       /\ provider' = c.p
       /\ procs' = c.procs
       /\ batch' = Note(c, start # "ok" \/ rpc # "ok" \/ ~serializable)
       /\ wk' = [wk EXCEPT ![i] =
                   [@ EXCEPT !.pc = "invoked", !.result = r.result, !.raised = r.raised,
                             !.sent = Append(@, "InvokeToolCommand"),
                             !.command = <<do_invoke(spec, wk[i].effective_timeout),
                                           cancel_is_set(batch), remaining_global(batch)>>,
                             !.rpc = @ \/ c.rpcs # <<>>]]
       /\ UNCHANGED <<infraVars, last, cmVars, flight>>

WReleaseProvider ==
  \E i \in Indexes :
    /\ wk[i].pc = "invoked"
    /\ WStep(i, release_provider(cm, wk[i], wk[i].raised # "none"))

\* acquire() is left and _execute_call returns (or raises).
WReleaseGlobal ==
  \E i \in Indexes :
    /\ wk[i].pc = "provider_released"
    /\ WStep(i, [release_global(cm, wk[i]) EXCEPT !.th.pc = "finished"])

\* ------------------------------------------------------ execute, collecting
Finished(i) == wk[i].pc = "finished"

\* as_completed takes the futures that have finished since it last looked.
Snapshot ==
  /\ batch.pc = "collecting"
  /\ batch.ready = {}
  /\ batch.pending # {}
  /\ batch.first \/ \E i \in batch.pending : Finished(i)
  /\ batch' = [batch EXCEPT !.first = FALSE,
                            !.ready = {i \in batch.pending : Finished(i)},
                            !.pending = {i \in batch.pending : ~Finished(i)}]
  /\ UNCHANGED <<infraVars, provVars, cmVars, wk, flight>>

\* A collection loop that no failure ends.
fail_fast_never_triggered(result, fail_fast) == FALSE

\* `if fail_fast: cancel_event.set(); break`, reached for a failed result.
fail_fast_triggered(result, fail_fast) == ~result.success /\ fail_fast

\* The body of `for future in as_completed(...)` for one future.
Collect ==
  \E i \in Indexes :
    LET raised == wk[i].raised # "none"
        result == IF raised THEN CallResult(batch.calls[i], FALSE, wk[i].raised)
                  ELSE wk[i].result
        stop == fail_fast_triggered(result, batch.fail_fast)
        more == batch.ready # {i} \/ batch.pending # {}
    IN /\ batch.pc = "collecting"
       /\ i \in batch.ready
       /\ batch' = [batch EXCEPT
            !.ready = @ \ {i},
            !.results[i] = result,
            !.events = IF raised THEN @
                       ELSE Append(@, [type |-> "BatchCallCompleted", index |-> result.index]),
            !.succeeded = IF result.success THEN @ + 1 ELSE @,
            !.failed = IF result.success THEN @ ELSE @ + 1,
            !.cancel = @ \/ stop,
            !.pc = IF stop \/ ~more THEN "joining" ELSE @]
       /\ UNCHANGED <<infraVars, provVars, cmVars, wk, flight>>

\* as_completed raises TimeoutError: the deadline has passed with futures it
\* has not yielded.
Timeout ==
  /\ batch.pc = "collecting"
  /\ batch.ready = {}
  /\ batch.pending # {}
  /\ ~batch.first
  /\ batch.expired
  /\ batch' = [batch EXCEPT !.cancel = TRUE, !.timed_out = TRUE, !.pc = "joining"]
  /\ UNCHANGED <<infraVars, provVars, cmVars, wk, flight>>

\* A completion event that carries no counts.
completed_event_uncounted(succeeded, failed, cancelled) ==
  [type |-> "BatchInvocationCompleted", index |-> -1, total |-> NCalls,
   succeeded |-> 0, failed |-> 0, cancelled |-> 0]

\* execute(), "Emit completion event": BatchInvocationCompleted(total,
\* succeeded, failed, cancelled).
completed_event(succeeded, failed, cancelled) ==
  [type |-> "BatchInvocationCompleted", index |-> -1, total |-> NCalls,
   succeeded |-> succeeded, failed |-> failed, cancelled |-> cancelled]

\* The fill-in loop leaving its counter alone.
count_filled_never(results) == 0

\* execute(), the fill-in loop: cancelled += 1 for every entry still None.
count_filled(results) == Cardinality({i \in DOMAIN results : results[i] = NoResult})

\* Leaving the pool without waiting for its work items.
pool_shutdown_nowait(w) == TRUE

\* ThreadPoolExecutor.__exit__, shutdown(wait=True): returns once every work
\* item submitted, queued ones included, has run.
pool_shutdown(w) == \A i \in DOMAIN w : w[i].pc = "finished"

\* `with ThreadPoolExecutor` is left once every work item has run; then the
\* fill-in, the counts, the completion event and the BatchResult.
Return ==
  \E setup \in TruncationSetups :
    LET filled == fill_in(batch.results, batch.calls, batch.cancel)
        cancelled == count_filled(batch.results)
    IN /\ batch.pc = "joining"
       /\ pool_shutdown(wk)
       /\ batch' = [batch EXCEPT
            !.pc = "done",
            !.results = filled,
            !.cancelled = cancelled,
            !.events = Append(@, completed_event(batch.succeeded, batch.failed, cancelled)),
            !.out = [results |-> _apply_batch_truncation(final_results(filled, 0), setup),
                     success |-> (batch.failed = 0 /\ cancelled = 0),
                     total |-> NCalls,
                     succeeded |-> batch.succeeded,
                     failed |-> batch.failed,
                     cancelled |-> cancelled]]
       /\ UNCHANGED <<infraVars, provVars, cmVars, wk, flight>>

\* ------------------------------------------------------------ environment
\* The batch's deadline (start_time + global_timeout) passes.
Expire ==
  /\ batch.pc \in {"collecting", "joining"}
  /\ ~batch.expired
  /\ batch' = [batch EXCEPT !.expired = TRUE, !.faults = TRUE]
  /\ UNCHANGED <<infraVars, provVars, cmVars, wk, flight>>

NextBatch ==
  \/ Begin
  \/ StartWorker
  \/ CheckCancel
  \/ CheckTimeout
  \/ CircuitBreaker
  \/ ColdCheck
  \/ SingleFlightEnter
  \/ SingleFlightRun
  \/ CheckCancelAfterStart
  \/ WAcquireGlobal
  \/ WAcquireGlobalBlocking
  \/ WAcquireGetSemaphore
  \/ WAcquireProvider
  \/ WAcquireProviderBlocking
  \/ Invoke
  \/ WReleaseProvider
  \/ WReleaseGlobal
  \/ Snapshot
  \/ Collect
  \/ Timeout
  \/ Return
  \/ Expire
  \/ ReleaseProvider
  \/ ReleaseGlobal

SpecBatch == InitBatch /\ [][NextBatch]_vars

\* ------------------------------------------------------- BatchExecutor claims
Returned == batch.pc = "done"

\* The calls execute() returned without a collected result.
Uncollected == batch.pending \cup batch.ready

AllCallsTo(p) == \A i \in Indexes : batch.calls[i].provider = p

\* C5: whatever the order in which the workers complete, and whether the batch
\* ends normally, by fail_fast or by the global timeout, the BatchResult has one
\* result per call, results[i] carrying index i and the call_id of calls[i].
C5_ResultsInInputOrder ==
  Returned =>
    /\ Len(batch.out.results) = NCalls
    /\ \A i \in Indexes :
         /\ batch.out.results[i + 1].index = i
         /\ batch.out.results[i + 1].call_id = batch.calls[i].call_id

\* A batch ended by the global timeout in which the last call was collected
\* with a success and the first call was not collected.
C5_Witness ==
  /\ Returned
  /\ batch.timed_out
  /\ 0 \in Uncollected
  /\ batch.out.results[NCalls].success

\* C6 as stated: N calls of one batch to the same COLD provider whose child can
\* start (no launch, RPC or result fails, the deadline does not pass) start the
\* provider exactly once and all succeed.
C6_ColdStartOnceAnyHealth ==
  (Returned /\ AllCallsTo("A") /\ batch.state0 = COLD /\ ~batch.faults) =>
    /\ batch.starts = 1
    /\ batch.inits = 1
    /\ Spawned(Ctx) = batch.spawned0 + 1
    /\ provider.state = READY
    /\ \A i \in Indexes : batch.out.results[i + 1].success

\* C6 for a provider whose circuit is closed when the batch begins
\* (consecutive_failures < max_consecutive_failures): the provider is started
\* exactly once (one write of INITIALIZING, one ProviderStarted event, one
\* child spawned) and every call succeeds.
C6_ColdStartOnce ==
  (Returned /\ AllCallsTo("A") /\ batch.state0 = COLD /\ ~batch.open0 /\ ~batch.faults) =>
    /\ batch.starts = 1
    /\ batch.inits = 1
    /\ Spawned(Ctx) = batch.spawned0 + 1
    /\ provider.state = READY
    /\ \A i \in Indexes : batch.out.results[i + 1].success

\* Two calls met in the single-flight: one ran the start, another joined it,
\* and the batch returned with every call successful.
C6_Witness ==
  /\ Returned /\ AllCallsTo("A") /\ batch.state0 = COLD /\ ~batch.open0 /\ ~batch.faults
  /\ \E i, j \in Indexes : wk[i].sf = "leader" /\ wk[j].sf = "joined"
  /\ batch.starts = 1
  /\ batch.out.succeeded = NCalls

\* C7: a call whose circuit breaker test found should_degrade() true returns
\* CircuitBreakerOpen, having sent no StartProvider or InvokeTool command,
\* entered no single-flight, acquired no concurrency slot and caused no RPC.
C7_CircuitOpenNoAttempt ==
  \A i \in Indexes :
    wk[i].saw_open =>
      /\ wk[i].pc = "finished"
      /\ wk[i].result.error_type = "CircuitBreakerOpen"
      /\ wk[i].sent = <<>>
      /\ wk[i].sf = "none"
      /\ ~wk[i].entered
      /\ wk[i].sem = 0 /\ ~wk[i].had_to_wait
      /\ ~wk[i].rpc

\* A call rejected by the circuit breaker, in a batch that returned it so.
C7_Witness ==
  /\ Returned
  /\ \E i \in Indexes :
       /\ wk[i].saw_open
       /\ batch.out.results[i + 1].error_type = "CircuitBreakerOpen"

\* C10: when the global timeout ends the collection, the cancel signal is set
\* and every call without a collected result is returned with TimeoutError.
C10_TimeoutFillsTimeoutError ==
  (Returned /\ batch.timed_out) =>
    /\ batch.cancel
    /\ \A i \in Uncollected : batch.out.results[i + 1].error_type = "TimeoutError"

\* The calls whose result the collection loop has taken.
Collected == Indexes \ Uncollected

\* C11: with fail_fast, once a failed result has been collected the cancel
\* signal is set, the collection is over (that failure is the last result
\* collected) and every call not collected by then is returned with
\* CancellationError; without fail_fast only the global timeout sets the
\* cancel signal and, short of it, every call is collected.
C11_FailFast ==
  batch.pc # "idle" =>
    /\ (batch.fail_fast /\ batch.failed >= 1) =>
         /\ batch.cancel
         /\ batch.pc \in {"joining", "done"}
         /\ batch.failed = 1
         /\ Cardinality(Collected) = batch.succeeded + 1
         /\ Returned =>
              \A i \in Uncollected : batch.out.results[i + 1].error_type = "CancellationError"
    /\ ~batch.fail_fast =>
         /\ batch.cancel => batch.timed_out
         /\ (Returned /\ ~batch.timed_out) => Uncollected = {}

\* A fail_fast batch that returned after its first failure, with a call left
\* uncollected and no timeout.
C11_Witness ==
  /\ Returned
  /\ batch.fail_fast /\ batch.failed = 1 /\ ~batch.timed_out
  /\ Uncollected # {}
\* ------------------------------------------------------------------ C12
\* C12: every successful call result that was truncated by the per-call size
\* test has its result cleared and carries a continuation id under which the
\* payload was stored; a successful result within the threshold keeps its
\* payload, is not truncated and has no continuation id.
C12_OversizeHasContinuation ==
  \A i \in Indexes :
    LET r == wk[i].result
    IN r.success =>
         /\ r.truncated => (r.result = "None" /\ r.continuation_id # "None")
         /\ ~r.truncated => (r.result = "payload" /\ r.continuation_id = "None")
\* ------------------------------------------------------------------ C13
\* The last operation was ensure_ready, or invoke_tool through it, on a
\* DEGRADED provider whose backoff had not elapsed.
StartedInBackoff ==
  /\ last.op \in {"ensure_ready", "invoke_tool"}
  /\ last.p0.state = DEGRADED
  /\ ~can_retry(last.p0)

RECURSIVE CountNew(_, _)
CountNew(ws, s) ==
  IF ws = <<>> THEN 0
  ELSE (IF Head(ws).new = s /\ Head(ws).old # s THEN 1 ELSE 0) + CountNew(Tail(ws), s)

RECURSIVE CountType(_, _)
CountType(es, type) ==
  IF es = <<>> THEN 0
  ELSE (IF Head(es).type = type THEN 1 ELSE 0) + CountType(Tail(es), type)

\* The last operation ran _start and the start failed.
StartFailed ==
  /\ last.op \in {"ensure_ready", "invoke_tool"}
  /\ last.raised = "ProviderStartError"

\* The rule of C14 for one failed start, and the events of every operation.
FailedStartRule ==
  /\ StartFailed =>
       /\ provider.consecutive_failures = last.p0.consecutive_failures + 1
       /\ provider.state = IF should_degrade(provider) THEN DEGRADED ELSE DEAD
  /\ CountType(last.events, "ProviderDegraded") = CountNew(last.writes, DEGRADED)

\* The state after the k-th call of a run of failing ensure_ready calls.
AfterFailedRun ==
  /\ last.raised = "ProviderStartError"
  /\ provider.state = IF last.run < max_consecutive_failures THEN DEAD ELSE DEGRADED

C15_OnlyInstalledClientOpen ==
  last.op \in PublicOps =>
    \A n \in 1..MaxSpawn :
      procs[n] \in {"alive", "dead"} => n = provider.client
\* ------------------------------------------------------------------ C16
\* The last operation was ensure_ready on a READY provider whose client was not
\* alive, or on a DEAD provider.
CalledOnDeadClient ==
  /\ last.op = "ensure_ready"
  /\ \/ last.p0.state = READY /\ ~last.alive0
     \/ last.p0.state = DEAD

\* C16: ensure_ready on a READY provider with a dead client writes DEAD and
\* starts the provider again in the same call, as it does on a DEAD provider:
\* the call either returns with state READY and a newly spawned live client, or
\* raises ProviderStartError with state DEAD or DEGRADED.
C16_RestartInSameCall ==
  CalledOnDeadClient =>
    /\ last.p0.state = READY =>
         last.writes # <<>> /\ last.writes[1] = [old |-> READY, new |-> DEAD,
                                                 version |-> last.p0.version]
    /\ \E k \in 1..Len(last.writes) :
         last.writes[k].old = DEAD /\ last.writes[k].new = INITIALIZING
    /\ \/ /\ last.raised = "none"
           /\ provider.state = READY
           /\ is_alive(Ctx, provider.client)
           /\ last.procs0[provider.client] = "none"
        \/ /\ last.raised = "ProviderStartError"
           /\ provider.state \in {DEAD, DEGRADED}

C16_Witness ==
  /\ CalledOnDeadClient
  /\ last.p0.state = READY /\ last.p0.client # 0
  /\ last.writes[1].new = DEAD
  /\ last.raised = "none" /\ provider.state = READY
  /\ provider.client # last.p0.client
\* ------------------------------------------------------------------ C17
\* C17: after shutdown(), whatever the state before: the state is COLD, the
\* client reference is null, close() was called on the client there was (once,
\* and on nothing else) and the reference is dropped even when close() raised,
\* the catalog and the metadata are empty, and the call recorded exactly one
\* ProviderStopped event, with reason "shutdown".
C17_ShutdownLeavesCold ==
  last.op = "shutdown" =>
    /\ last.raised = "none"
    /\ provider.state = COLD
    /\ provider.client = 0
    /\ last.closes = IF last.p0.client # 0 THEN <<last.p0.client>> ELSE <<>>
    /\ provider.tools = {} /\ provider.meta = "empty"
    /\ CountType(last.events, "ProviderStopped") = 1
    /\ \A k \in 1..Len(last.events) :
         last.events[k].type = "ProviderStopped" => last.events[k].reason = "shutdown"

\* shutdown() of a READY provider whose client's close() raised: the child is
\* still running and the reference is gone.
C17_Witness ==
  /\ last.op = "shutdown"
  /\ last.p0.state = READY /\ last.p0.tools # {}
  /\ last.closes = <<last.p0.client>>
  /\ procs[last.p0.client] = "alive"
  /\ provider.client = 0
\* ------------------------------------------------------------------ C18
\* The provider was READY and idle for longer than idle_ttl_s when the last
\* operation began.
WasIdle == last.p0.state = READY /\ last.p0.idle_for > idle_ttl_s

\* C18: maybe_shutdown_idle returns true exactly when the provider was READY
\* and idle for longer than idle_ttl_s, and then it has shut the provider down:
\* state COLD, close() called on the client and the reference dropped,
\* ProviderIdleDetected and then ProviderStopped with reason idle recorded.
\* Otherwise it returns false and the aggregate, the children and the events
\* are as they were.
C18_IdleShutdown ==
  last.op = "maybe_shutdown_idle" =>
    /\ last.raised = "none"
    /\ last.ret = IF WasIdle THEN "True" ELSE "False"
    /\ WasIdle =>
         /\ provider.state = COLD
         /\ provider.client = 0
         /\ last.closes = IF last.p0.client # 0 THEN <<last.p0.client>> ELSE <<>>
         /\ Len(last.events) = 2
         /\ last.events[1].type = "ProviderIdleDetected"
         /\ last.events[2].type = "ProviderStopped" /\ last.events[2].reason = "idle"
    /\ ~WasIdle =>
         /\ provider = last.p0
         /\ procs = last.procs0
         /\ last.events = <<>> /\ last.writes = <<>> /\ last.closes = <<>>

C18_Witness ==
  /\ last.op = "maybe_shutdown_idle"
  /\ WasIdle /\ last.ret = "True"
  /\ last.p0.client # 0 /\ procs[last.p0.client] = "closed"
  /\ provider.state = COLD
\* ------------------------------------------------------------------ C19
\* The types of a list of events.
EventTypes(es) == [k \in 1..Len(es) |-> es[k].type]

\* The last operation was a health_check of a READY provider with a live client.
CheckedLive == last.op = "health_check" /\ last.p0.state = READY /\ last.alive0

\* C19: a health_check of a READY provider with a live client sends one
\* tools/list. When it fails it records one failure and HealthCheckFailed, and
\* the state becomes DEGRADED with ProviderDegraded recorded if
\* consecutive_failures has reached max_consecutive_failures and stays READY
\* otherwise. When it passes it records HealthCheckPassed, sets
\* consecutive_failures to 0 and keeps READY. In a state other than READY it
\* returns false and sends, records and changes nothing.
C19_HealthCheck ==
  /\ CheckedLive =>
       /\ last.rpcs = <<"tools/list">>
       /\ last.raised = "none"
       /\ last.ret = "False" =>
            /\ provider.consecutive_failures = last.p0.consecutive_failures + 1
            /\ IF should_degrade(provider)
               THEN /\ provider.state = DEGRADED
                    /\ EventTypes(last.events) = <<"HealthCheckFailed", "ProviderDegraded">>
               ELSE /\ provider.state = READY
                    /\ EventTypes(last.events) = <<"HealthCheckFailed">>
       /\ last.ret = "True" =>
            /\ EventTypes(last.events) = <<"HealthCheckPassed">>
            /\ provider.consecutive_failures = 0
            /\ provider.state = READY
            /\ last.writes = <<>>
       /\ last.ret \in {"True", "False"}
  /\ (last.op = "health_check" /\ last.p0.state # READY) =>
       /\ last.ret = "False"
       /\ last.rpcs = <<>> /\ last.events = <<>> /\ last.writes = <<>>
       /\ provider = last.p0
       /\ procs = last.procs0

\* A failing check that brings the provider to the threshold.
C19_Witness ==
  /\ CheckedLive
  /\ last.ret = "False"
  /\ last.p0.consecutive_failures = max_consecutive_failures - 1
  /\ provider.state = DEGRADED
\* ------------------------------------------------------------------ C20
\* Number of requests of one method in a list of requests.
RECURSIVE CountMethod(_, _)
CountMethod(rpcs, method) ==
  IF rpcs = <<>> THEN 0
  ELSE (IF Head(rpcs) = method THEN 1 ELSE 0) + CountMethod(Tail(rpcs), method)

\* The last invoke_tool started the provider on its way (ensure_ready ran _start).
StartedOnTheWay == CountMethod(last.rpcs, "initialize") > 0

\* The tools/list requests of the last operation that are catalog refreshes:
\* all of them but the one of the start's handshake.
Refreshes ==
  CountMethod(last.rpcs, "tools/list") - (IF StartedOnTheWay THEN 1 ELSE 0)

\* The last operation was an invoke_tool that got past ensure_ready.
InvokedReady ==
  /\ last.op = "invoke_tool"
  /\ last.raised \notin {"CannotStartProviderError", "ProviderStartError"}

\* What C20 says of every invoke_tool apart from the counters and last_used.
NotFoundRule ==
  InvokedReady =>
    /\ Refreshes <= 1
    /\ (~StartedOnTheWay /\ last.tool \in last.p0.tools) => Refreshes = 0
    /\ last.tool \notin provider.tools <=> last.raised = "ToolNotFoundError"
    /\ last.raised = "ToolNotFoundError" =>
         /\ CountMethod(last.rpcs, "tools/call") = 0
         /\ CountType(last.events, "ToolInvocationRequested") = 0

\* C20 (as stated): invoke_tool for a tool absent from the catalog refreshes the
\* catalog at most once and, the tool still absent, raises ToolNotFoundError
\* without tools/call, without ToolInvocationRequested and with the
\* failure/success counters and last_used as they were before the call.
C20_NotFoundChangesNoCounter ==
  /\ NotFoundRule
  /\ (last.op = "invoke_tool" /\ last.raised = "ToolNotFoundError") =>
       /\ provider.consecutive_failures = last.p0.consecutive_failures
       /\ provider.since_failure = last.p0.since_failure
       /\ provider.idle_for = last.p0.idle_for

\* C20 (amended): the same, the counters and last_used being as they were
\* before the call when the provider was READY with a live client, and as the
\* start left them (consecutive_failures 0, last_used the time of the start)
\* when ensure_ready had to start the provider first.
C20_NotFound ==
  /\ NotFoundRule
  /\ (last.op = "invoke_tool" /\ last.raised = "ToolNotFoundError") =>
       /\ provider.since_failure = last.p0.since_failure
       /\ IF StartedOnTheWay
          THEN provider.consecutive_failures = 0 /\ provider.idle_for = 0
          ELSE /\ provider.consecutive_failures = last.p0.consecutive_failures
               /\ provider.idle_for = last.p0.idle_for
               /\ last.p0.state = READY /\ last.alive0

\* A READY provider that has been idle and has a failure counted is asked for
\* an unknown tool; one refresh is made and the tool is still unknown.
C20_Witness ==
  /\ last.op = "invoke_tool" /\ last.raised = "ToolNotFoundError"
  /\ ~StartedOnTheWay /\ Refreshes = 1
  /\ last.p0.consecutive_failures > 0 /\ last.p0.idle_for > 0
\* ------------------------------------------------------------------ C21
\* The last operation was an invoke_tool whose tools/call was answered with an
\* error payload or raised.
CallFailed == last.op = "invoke_tool" /\ last.answer \in {"error", "raise"}

\* Position of the first event of a type in a list of events, 0 if none.
FirstOfType(es, type) ==
  IF \E k \in 1..Len(es) : es[k].type = type
  THEN CHOOSE k \in 1..Len(es) :
         es[k].type = type /\ \A j \in 1..(k - 1) : es[j].type # type
  ELSE 0

\* What C21 says apart from the success counter and last_used: the failed call
\* raises, records its events, and every request event has one outcome event
\* after it.
CallFailedRule ==
  /\ CallFailed =>
       /\ last.raised = "ToolInvocationError"
       /\ last.ret = "none"
       /\ CountType(last.events, "ToolInvocationFailed") = 1
       /\ CountType(last.events, "ToolInvocationCompleted") = 0
       /\ provider.since_failure = 0
  /\ CountType(last.events, "ToolInvocationRequested") <= 1
  /\ CountType(last.events, "ToolInvocationRequested") =
       CountType(last.events, "ToolInvocationCompleted")
         + CountType(last.events, "ToolInvocationFailed")
  /\ CountType(last.events, "ToolInvocationRequested") = 1 =>
       /\ last.events[Len(last.events)].type
            \in {"ToolInvocationCompleted", "ToolInvocationFailed"}
       /\ FirstOfType(last.events, "ToolInvocationRequested") = Len(last.events) - 1

\* C21 (as stated): a failed tools/call raises ToolInvocationError, records one
\* failure and one ToolInvocationFailed and no ToolInvocationCompleted; the
\* invoke_tool call records no success and leaves last_used as it was; every
\* ToolInvocationRequested is followed by exactly one outcome event.
C21_FailedCallNoSuccess ==
  /\ CallFailedRule
  /\ CallFailed =>
       /\ provider.consecutive_failures = last.p0.consecutive_failures + 1
       /\ provider.idle_for = last.p0.idle_for

\* C21 (amended): the same, the failure being counted on top of what the call
\* found when the provider was READY with a live client, and on top of what
\* the start left (consecutive_failures 0, last_used the time of the start)
\* when ensure_ready had to start the provider first.
C21_FailedCall ==
  /\ CallFailedRule
  /\ CallFailed =>
       IF StartedOnTheWay
       THEN provider.consecutive_failures = 1 /\ provider.idle_for = 0
       ELSE /\ provider.consecutive_failures = last.p0.consecutive_failures + 1
            /\ provider.idle_for = last.p0.idle_for

\* A second failed call in a row on a READY provider that has been idle.
C21_Witness ==
  /\ CallFailed /\ last.answer = "error"
  /\ ~StartedOnTheWay
  /\ last.p0.consecutive_failures = 1 /\ last.p0.idle_for > 0
  /\ provider.consecutive_failures = 2
\* ------------------------------------------------------------------ C22
\* The threads that hold a permit of the global semaphore, and of semaphore s.
HoldersGlobal == {t \in Threads : thr[t].held_global}
HoldersOf(s) == {t \in Threads : thr[t].held_sem = s}

\* Every permit is either available or held by one thread.
SlotsConserved ==
  /\ cm.global_limit # UNLIMITED =>
       cm.global_permits + Cardinality(HoldersGlobal) = cm.global_limit
  /\ \A s \in 1..Len(cm.sems) :
       cm.sems[s].permits + Cardinality(HoldersOf(s)) = cm.sems[s].limit

\* C22: a thread that has left the acquire scope, normally or by an exception
\* raised in the body, holds neither slot, and each permit it took is back
\* exactly once: every permit is at any time either available or held by one
\* thread, so with all threads outside the available permits of the global
\* semaphore and of every provider semaphore equal their limits.
C22_SlotsReleasedOnce ==
  /\ SlotsConserved
  /\ \A t \in Threads :
       thr[t].pc = "idle" => ~thr[t].held_global /\ thr[t].held_sem = 0
  /\ (\A t \in Threads : thr[t].pc = "idle") =>
       /\ cm.global_limit # UNLIMITED => cm.global_permits = cm.global_limit
       /\ \A s \in 1..Len(cm.sems) : cm.sems[s].permits = cm.sems[s].limit

\* The last thread inside has left by an exception; both semaphores are bounded
\* and full again.
C22_Witness ==
  /\ \A t \in Threads : thr[t].pc = "idle"
  /\ \E t \in Threads : thr[t].ended = "exception"
  /\ cm.global_limit = MaxLimit /\ cm.global_permits = MaxLimit
  /\ Len(cm.sems) = 2
  /\ \A s \in 1..Len(cm.sems) : cm.sems[s].permits = cm.sems[s].limit

\* ------------------------------------------------------------------ C29
\* C29: a step in which acquire() fails after the global slot was taken and
\* before the scope is entered gives the global permit back once (none when
\* there is no global semaphore), leaves the thread holding nothing, and
\* leaves every provider semaphore as it was.
C29_FailedAcquireReleasesGlobalOnly ==
  [][\A t \in Threads :
       (thr[t].pc # "idle" /\ thr'[t].ended = "failed") =>
         /\ cm'.global_permits =
              cm.global_permits + (IF cm.global_limit # UNLIMITED THEN 1 ELSE 0)
         /\ cm'.sems = cm.sems
         /\ thr'[t].pc = "idle" /\ ~thr'[t].held_global /\ thr'[t].held_sem = 0
         /\ cm'.global_limit # UNLIMITED => cm'.global_permits <= cm'.global_limit]_vars

\* A thread that waited for a provider slot has failed; the global semaphore
\* is full again and the provider's slot is still held by the other thread.
C29_Witness ==
  /\ \E t \in Threads : thr[t].ended = "failed"
  /\ cm.global_limit = MaxLimit
  /\ Cardinality(HoldersGlobal) = 1
  /\ cm.global_permits = MaxLimit - 1
  /\ \E s \in 1..Len(cm.sems) : cm.sems[s].permits = 0 /\ Cardinality(HoldersOf(s)) = 1
\* ------------------------------------------------------------------ C23
\* Thread t takes, or gives back, a permit in a step.
TakesGlobal(t) == ~thr[t].held_global /\ thr'[t].held_global
TakesProvider(t) == thr[t].held_sem = 0 /\ thr'[t].held_sem # 0
ReleasesGlobal(t) == thr[t].held_global /\ ~thr'[t].held_global
ReleasesProvider(t) == thr[t].held_sem # 0 /\ thr'[t].held_sem = 0

\* With a global semaphore, a thread that holds a provider slot holds a global one.
ProviderSlotInsideGlobal ==
  cm.global_limit # UNLIMITED =>
    \A t \in Threads : thr[t].held_sem # 0 => thr[t].held_global

\* C23: a thread takes the global slot while it holds no provider slot and
\* takes the provider slot while it holds the global one; it gives the
\* provider slot back while it still holds the global one and gives the global
\* slot back when it holds no provider slot; so with a bounded global limit no
\* thread ever holds a provider slot without a global slot.
C23_GlobalThenProvider ==
  /\ []ProviderSlotInsideGlobal
  /\ [][\A t \in Threads :
          /\ TakesGlobal(t) => thr[t].held_sem = 0 /\ thr'[t].held_sem = 0
          /\ TakesProvider(t) =>
               (cm.global_limit # UNLIMITED => thr[t].held_global /\ thr'[t].held_global)
          /\ ReleasesProvider(t) =>
               (cm.global_limit # UNLIMITED => thr[t].held_global /\ thr'[t].held_global)
          /\ ReleasesGlobal(t) => thr[t].held_sem = 0 /\ thr'[t].held_sem = 0
          /\ thr'[t].pc = "inside" =>
               /\ cm.global_limit # UNLIMITED => thr'[t].held_global
               /\ thr'[t].sem # NoSemaphore => thr'[t].held_sem = thr'[t].sem]_vars

\* A thread has given its provider slot back and still holds its global slot,
\* while another waits for the global semaphore.
C23_Witness ==
  /\ cm.global_limit = 1
  /\ \E t \in Threads :
       /\ thr[t].pc = "provider_released"
       /\ thr[t].held_global /\ thr[t].held_sem = 0 /\ thr[t].sem # NoSemaphore
  /\ \E t \in Threads : thr[t].pc = "global_wait"
\* ------------------------------------------------------------------ C24
\* acquire() calls each thread makes in the runs checked for progress.
MaxCalls == 1

\* Managers whose global and per-provider limits are all positive.
BoundedManagers ==
  {NewManager(g, d) : g \in 1..MaxLimit, d \in 1..MaxLimit}
  \cup {set_provider_limit(NewManager(g, d), "A", l) :
          g \in 1..MaxLimit, d \in 1..MaxLimit, l \in 1..MaxLimit}

InitCMLive ==
  /\ InitProv
  /\ cm \in BoundedManagers
  /\ thr = [t \in Threads |-> IdleThread]
  /\ InitBatchIdle
  /\ InitInfraIdle

\* A thread calls acquire(p), as long as it has calls left to make.
AcquireGlobalCounted ==
  \E t \in Threads : \E p \in Providers :
    /\ thr[t].pc = "idle"
    /\ thr[t].calls < MaxCalls
    /\ Step(t, acquire_global(cm, [thr[t] EXCEPT !.provider = p, !.calls = @ + 1]))

NextCMLive ==
  \/ AcquireGlobalCounted
  \/ AcquireGlobalBlocking
  \/ AcquireGetSemaphore
  \/ AcquireProvider
  \/ AcquireProviderBlocking
  \/ ReleaseProvider
  \/ ReleaseGlobal

\* What thread t does once it has called acquire(): it goes on whenever it can,
\* and it leaves the scope it has entered.
Progress(t) ==
  \/ AcquireGlobalBlockingOf(t)
  \/ AcquireGetSemaphoreOf(t)
  \/ AcquireProviderOf(t)
  \/ AcquireProviderBlockingOf(t)
  \/ ReleaseProviderOf(t)
  \/ ReleaseGlobalOf(t)

\* A running thread that can take a step takes one; a blocked acquire returns
\* once the permit it waits for stays available.
SpecCMLive ==
  InitCMLive /\ [][NextCMLive]_vars /\ \A t \in Threads : WF_vars(Progress(t))

\* Thread t has called acquire() and has not entered the scope.
Acquiring(t) == thr[t].pc \in {"global_wait", "have_global", "have_sem", "provider_wait"}

\* C24: with positive limits and every thread that enters a scope leaving it,
\* every thread that has called acquire() enters its scope.
C24_EveryAcquireEnters ==
  \A t \in Threads : Acquiring(t) ~> (thr[t].pc = "inside")

\* All three threads contend: one is inside, one waits for the provider's
\* only slot and one for the global semaphore.
C24_Witness ==
  /\ cm.global_limit = 2
  /\ \E t \in Threads : thr[t].pc = "inside"
  /\ \E t \in Threads : thr[t].pc = "provider_wait"
  /\ \E t \in Threads : thr[t].pc = "global_wait"
\* ------------------------------------------------------------------ C25
\* Semaphores a manager creates in the runs with changing limits.
MaxSems == 2

InitCMSet ==
  /\ InitProv
  /\ cm \in {NewManager(g, d) : g \in {UNLIMITED, MaxLimit}, d \in {UNLIMITED, 1}}
  /\ thr = [t \in Threads |-> IdleThread]
  /\ InitBatchIdle
  /\ InitInfraIdle

\* The provider whose limit is changed while it is in use.
Relimited == {"A"}

\* set_provider_limit(p, n) by a thread that is not in acquire(); the calls in
\* progress for p now predate the limit.
SetProviderLimit ==
  \E p \in Relimited : \E n \in 0..MaxLimit :
    /\ n > 0 => Len(cm.sems) < MaxSems
    /\ cm' = set_provider_limit(cm, p, n)
    /\ thr' = [t \in Threads |->
                 IF thr[t].provider = p /\ thr[t].pc # "idle"
                 THEN [thr[t] EXCEPT !.stale = TRUE, !.ended = "none"]
                 ELSE [thr[t] EXCEPT !.ended = "none"]]
    /\ UNCHANGED <<infraVars, provVars, batchVars>>

\* A thread calls acquire(p) while the manager can still create a semaphore.
AcquireGlobalWithinSems ==
  \E t \in Threads : \E p \in Relimited :
    /\ thr[t].pc = "idle"
    /\ cm.provider_semaphores[p] = Absent => Len(cm.sems) < MaxSems
    /\ Step(t, acquire_global(cm, [thr[t] EXCEPT !.provider = p]))

NextCMSet ==
  \/ SetProviderLimit
  \/ AcquireGlobalWithinSems
  \/ AcquireGlobalBlocking
  \/ AcquireGetSemaphore
  \/ AcquireProvider
  \/ AcquireProviderBlocking
  \/ ReleaseProvider
  \/ ReleaseGlobal

SpecCMSet == InitCMSet /\ [][NextCMSet]_vars

\* The calls for p made since its limit was last set that are inside the scope.
FreshInside(p) ==
  {t \in Threads : thr[t].provider = p /\ ~thr[t].stale /\ thr[t].pc = "inside"}

\* Calls made after the change are admitted against the semaphore and the
\* limit the provider has now.
FreshAdmitted ==
  \A p \in Providers :
    /\ \A t \in FreshInside(p) : thr[t].sem = cm.provider_semaphores[p]
    /\ get_provider_limit(cm, p) > 0 =>
         Cardinality(FreshInside(p)) <= get_provider_limit(cm, p)

\* C25: with set_provider_limit called while calls hold slots: every permit of
\* every semaphore, replaced or current, is available or held by one thread,
\* so no semaphore ever has more permits available than its limit; a call
\* gives its permit back to the semaphore it took it from and to no other;
\* calls made after the change are admitted against the new semaphore and
\* limit; and get_provider_limit(p) is the limit last set, changed by no
\* other step.
C25_LimitChangeKeepsSlots ==
  /\ [](/\ SlotsConserved
        /\ \A s \in 1..Len(cm.sems) : cm.sems[s].permits <= cm.sems[s].limit
        /\ FreshAdmitted
        /\ \A p \in Providers :
             /\ cm.provider_limits[p] # NoLimitSet =>
                  get_provider_limit(cm, p) = cm.provider_limits[p]
             /\ cm.provider_semaphores[p] > 0 =>
                  cm.sems[cm.provider_semaphores[p]].limit = get_provider_limit(cm, p))
  /\ [][\A t \in Threads :
          /\ ReleasesProvider(t) =>
               /\ thr[t].held_sem = thr[t].sem
               /\ cm'.sems = [cm.sems EXCEPT ![thr[t].held_sem].permits = @ + 1]
          /\ thr'[t].pc # thr[t].pc => cm'.provider_limits = cm.provider_limits]_vars

\* The limit of A was set to 1 while a call held a slot of the old semaphore:
\* that call and a later one are inside together, each on its own semaphore.
C25_Witness ==
  /\ get_provider_limit(cm, "A") = 1
  /\ \E t, u \in Threads :
       /\ thr[t].provider = "A" /\ thr[t].pc = "inside" /\ thr[t].stale
       /\ thr[t].held_sem # 0 /\ thr[t].held_sem # cm.provider_semaphores["A"]
       /\ thr[u].provider = "A" /\ thr[u].pc = "inside" /\ ~thr[u].stale
       /\ thr[u].held_sem = cm.provider_semaphores["A"]
\* ---------------------------------------------------------------- C26
\* Provider p has a free slot: it is unlimited, or fewer threads hold a slot
\* of p than its limit.
HasFreeSlot(p) ==
  \/ get_provider_limit(cm, p) = UNLIMITED
  \/ Cardinality({u \in Threads : thr[u].provider = p /\ thr[u].held_sem # 0})
       < get_provider_limit(cm, p)

\* Thread t is blocked: it waits for a permit nobody has given back yet.
Blocked(t) ==
  \/ thr[t].pc = "global_wait" /\ cm.global_permits = 0
  \/ thr[t].pc = "provider_wait" /\ cm.sems[thr[t].sem].permits = 0

\* C26: with the global limit unlimited, a thread never waits for the global
\* semaphore; a thread whose non-blocking try on its provider's semaphore runs
\* while the provider has a free slot enters the scope without having waited,
\* whatever the threads of other providers hold or wait for; and a thread
\* is only ever blocked behind threads holding slots of its own provider, so
\* threads that target distinct providers are all inside together.
C26_ProvidersIsolated ==
  /\ [](cm.global_limit = UNLIMITED =>
          \A t \in Threads :
            /\ thr[t].pc # "global_wait"
            /\ Blocked(t) =>
                 Cardinality({u \in Threads \ {t} : thr[u].provider = thr[t].provider
                                                    /\ thr[u].held_sem = thr[t].sem})
                   = get_provider_limit(cm, thr[t].provider))
  /\ [][cm.global_limit = UNLIMITED =>
          \A t \in Threads :
            (thr[t].pc = "have_sem" /\ thr'[t].pc \notin {"have_sem", "idle"}
               /\ HasFreeSlot(thr[t].provider))
              => thr'[t].pc = "inside" /\ ~thr'[t].had_to_wait]_vars

\* Provider A (limit 1) has one thread inside and one blocked behind it, while
\* a thread of provider B is inside without having waited.
C26_Witness ==
  /\ cm.global_limit = UNLIMITED
  /\ get_provider_limit(cm, "A") = 1
  /\ \E a, w, b \in Threads :
       /\ thr[a].provider = "A" /\ thr[a].pc = "inside"
       /\ thr[w].provider = "A" /\ Blocked(w)
       /\ thr[b].provider = "B" /\ thr[b].pc = "inside" /\ ~thr[b].had_to_wait
       /\ thr[b].held_sem # 0

\* ------------------------------------------------------------ CommandBus
\* Command classes and handler instances the bus is used with.
CommandTypes == {"StartProviderCommand", "StopProviderCommand", "InvokeToolCommand"}
Handlers == {"h1", "h2"}
\* dict.get(key) when the key is missing.
None == "None"

\* The dict operations on _handlers: key in d, d.get(key), d[key] = value,
\* del d[key].
dict_contains(d, k) == \E it \in d : it[1] = k
dict_get(d, k) == IF dict_contains(d, k) THEN (CHOOSE it \in d : it[1] = k)[2] ELSE None
dict_set(d, k, v) == {it \in d : it[1] # k} \cup {<<k, v>>}
dict_del(d, k) == {it \in d : it[1] # k}

\* handler.handle(command): what the handler gives back.
handle(h, command_type) == <<"handled", h, command_type>>

Called(b, name, command_type, h) ==
  [NoCall EXCEPT !.op = name, !.command_type = command_type, !.handler = h,
                 !.handlers0 = b.handlers]

\* register() putting the handler in place whether or not the type has one.
register_replacing(b, command_type, h) ==
  [handlers |-> dict_set(b.handlers, command_type, h),
   last |-> Called(b, "register", command_type, h)]

register(b, command_type, h) ==
  IF dict_contains(b.handlers, command_type)
  THEN [handlers |-> b.handlers,
        last |-> [Called(b, "register", command_type, h) EXCEPT
                    !.raised = "ValueError: Handler already registered"]]
  ELSE [handlers |-> dict_set(b.handlers, command_type, h),
        last |-> Called(b, "register", command_type, h)]

unregister(b, command_type) ==
  IF dict_contains(b.handlers, command_type)
  THEN [handlers |-> dict_del(b.handlers, command_type),
        last |-> [Called(b, "unregister", command_type, "") EXCEPT !.ret = TRUE]]
  ELSE [handlers |-> b.handlers,
        last |-> [Called(b, "unregister", command_type, "") EXCEPT !.ret = FALSE]]

\* send(command) for a command of class command_type; raises: the handler
\* raises instead of returning.
send(b, command_type, raises) ==
  LET handler == dict_get(b.handlers, command_type)
      c == Called(b, "send", command_type, "")
  IN IF handler = None
     THEN [handlers |-> b.handlers,
           last |-> [c EXCEPT !.raised = "ValueError: No handler registered"]]
     ELSE [handlers |-> b.handlers,
           last |-> IF raises
                    THEN [c EXCEPT !.handled = <<handler>>, !.raised = "handler error"]
                    ELSE [c EXCEPT !.handled = <<handler>>,
                                   !.ret = handle(handler, command_type)]]

has_handler(b, command_type) ==
  [handlers |-> b.handlers,
   last |-> [Called(b, "has_handler", command_type, "") EXCEPT
               !.ret = dict_contains(b.handlers, command_type)]]

BusStep(b) == bus' = b /\ UNCHANGED <<provVars, cmVars, batchVars, stdio, lk>>

Register == \E ct \in CommandTypes : \E h \in Handlers : BusStep(register(bus, ct, h))
Unregister == \E ct \in CommandTypes : BusStep(unregister(bus, ct))
Send == \E ct \in CommandTypes : \E raises \in BOOLEAN : BusStep(send(bus, ct, raises))
HasHandler == \E ct \in CommandTypes : BusStep(has_handler(bus, ct))

NextBus == Register \/ Unregister \/ Send \/ HasHandler

SpecBus == Init /\ [][NextBus]_vars

\* ---------------------------------------------------------------- C27
\* The handlers the bus holds for a command type.
HandlersOfType(d, ct) == {it[2] : it \in {x \in d : x[1] = ct}}

\* C27: the bus never holds two handlers for one command type. register for a
\* type that has a handler raises and changes nothing, otherwise it puts the
\* handler in place; send hands the command to the handler registered for
\* exactly its type, to no other, and returns what the handler returns; with
\* no handler for the type it raises the no-handler error and no handler is
\* invoked; unregister returns true exactly when it removed a handler.
C27_OneHandlerPerType ==
  LET L == bus.last
      had == HandlersOfType(L.handlers0, L.command_type)
  IN /\ \A ct \in CommandTypes : Cardinality(HandlersOfType(bus.handlers, ct)) <= 1
     /\ L.op = "register" =>
          IF had # {}
          THEN L.raised = "ValueError: Handler already registered"
               /\ bus.handlers = L.handlers0
          ELSE L.raised = "none"
               /\ bus.handlers = L.handlers0 \cup {<<L.command_type, L.handler>>}
     /\ L.op = "send" =>
          /\ bus.handlers = L.handlers0
          /\ IF had = {}
             THEN L.raised = "ValueError: No handler registered" /\ L.handled = <<>>
             ELSE /\ Len(L.handled) = 1 /\ L.handled[1] \in had
                  /\ L.raised # "ValueError: No handler registered"
                  /\ L.raised = "none" => L.ret = handle(L.handled[1], L.command_type)
     /\ L.op = "unregister" =>
          /\ L.raised = "none"
          /\ L.ret = (bus.handlers # L.handlers0)
          /\ L.ret = (had # {})
          /\ HandlersOfType(bus.handlers, L.command_type) = {}
          /\ \A ct \in CommandTypes \ {L.command_type} :
               HandlersOfType(bus.handlers, ct) = HandlersOfType(L.handlers0, ct)

\* A second register for a type was refused and the first handler is still the
\* one in place, while another type, registered and unregistered, has none.
C27_Witness ==
  /\ bus.last.op = "register"
  /\ bus.last.raised = "ValueError: Handler already registered"
  /\ HandlersOfType(bus.handlers, bus.last.command_type) = {"h1"}
  /\ bus.last.handler = "h2"
  /\ \E ct \in CommandTypes : HandlersOfType(bus.handlers, ct) = {}

\* ------------------------------------------------------------ StdioClient
\* The client is in its terminal state: the reader task has ended or close()
\* has been called.
Dead(s) == s.reader = "ended" \/ s.closed

\* is_alive(): the process has not exited and the reader task is running.
stdio_is_alive(s) == s.process = "running" /\ s.reader = "running"

\* The reader ending while the waiters stay registered, left to their timeouts.
release_waiters_never(s) == s

\* Every pending waiter completes with the reader_died error.
release_waiters(s) ==
  [s EXCEPT !.pending = [i \in 1..MaxRequests |->
                           IF s.pending[i] = "waiting" THEN "reader_died" ELSE s.pending[i]]]

\* call(method, params, timeout), up to the wait for the response: a dead
\* client fails the call at once; otherwise the waiter is registered under the
\* next id and the request written to the child (write_fails: the pipe to an
\* exited child is broken and the write raises).
stdio_call(s, write_fails) ==
  LET id == s.next_id
      s1 == [s EXCEPT !.next_id = @ + 1, !.last = [op |-> "call", ret |-> id]]
  IN IF Dead(s) THEN [s1 EXCEPT !.pending[id] = "client_dead"]
     ELSE IF write_fails THEN [s1 EXCEPT !.pending[id] = "write_failed"]
     ELSE [s1 EXCEPT !.pending[id] = "waiting", !.written = @ \cup {id}]

\* The reader task consumes one line: the response is routed to the waiter
\* registered under its id; without a matching waiter it is discarded.
reader_routes(s, id) ==
  [s EXCEPT !.unread = @ \ {id},
            !.pending[id] = IF @ = "waiting" THEN "response" ELSE @,
            !.last = [op |-> "route", ret |-> id]]

\* The deadline of a call elapses: TimeoutError, the waiter is removed.
call_times_out(s, id) ==
  [s EXCEPT !.pending[id] = "timeout", !.last = [op |-> "timeout", ret |-> id]]

\* The reader task terminates (EOF or a line that does not parse).
reader_terminates(s, cause) ==
  release_waiters([s EXCEPT !.reader = "ended", !.last = [op |-> "reader_ended", ret |-> cause]])

\* close(): no protocol message; terminates the child, drains the reader and
\* releases the waiters.
stdio_close(s) ==
  release_waiters([s EXCEPT !.closed = TRUE, !.process = "exited", !.reader = "ended",
                            !.unread = {}, !.last = [op |-> "close", ret |-> "none"]])

StdioStep(s) == stdio' = s /\ UNCHANGED <<provVars, cmVars, batchVars, bus, lk>>

StdioCall ==
  \E write_fails \in BOOLEAN :
    /\ stdio.next_id <= MaxRequests
    /\ write_fails => stdio.process = "exited"
    /\ StdioStep(stdio_call(stdio, write_fails))

ChildResponds ==
  \E id \in stdio.written \ stdio.unread :
    /\ stdio.process = "running"
    /\ StdioStep([stdio EXCEPT !.unread = @ \cup {id}, !.written = @ \ {id},
                               !.last = [op |-> "respond", ret |-> id]])

ReaderRoutes ==
  \E id \in stdio.unread :
    /\ stdio.reader = "running"
    /\ StdioStep(reader_routes(stdio, id))

CallTimesOut ==
  \E id \in 1..MaxRequests :
    /\ stdio.pending[id] = "waiting"
    /\ StdioStep(call_times_out(stdio, id))

ProcessExits ==
  /\ stdio.process = "running"
  /\ StdioStep([stdio EXCEPT !.process = "exited", !.last = [op |-> "exit", ret |-> "none"]])

\* EOF once the child has exited and its output is consumed; a parse error on
\* a line the child wrote.
ReaderTerminates ==
  \E cause \in {"eof", "parse_error"} :
    /\ stdio.reader = "running"
    /\ cause = "eof" => stdio.process = "exited" /\ stdio.unread = {}
    /\ cause = "parse_error" => stdio.unread # {}
    /\ StdioStep(reader_terminates(stdio, cause))

StdioClose == StdioStep(stdio_close(stdio))

IsAlive ==
  StdioStep([stdio EXCEPT !.last = [op |-> "is_alive", ret |-> stdio_is_alive(stdio)]])

NextStdio ==
  \/ StdioCall
  \/ ChildResponds
  \/ ReaderRoutes
  \/ CallTimesOut
  \/ ProcessExits
  \/ ReaderTerminates
  \/ StdioClose
  \/ IsAlive

SpecStdio == Init /\ [][NextStdio]_vars

\* ---------------------------------------------------------------- C28
\* C28: once the reader has terminated or the client has been closed the
\* client stays dead; the calls pending at that moment complete with
\* reader_died, so a dead client has no call left waiting for its timeout;
\* is_alive() answers false; and a call made on a dead client fails at once
\* and writes nothing to the child.
C28_DeadClientIsTerminal ==
  /\ [](Dead(stdio) =>
          /\ \A i \in 1..MaxRequests : stdio.pending[i] # "waiting"
          /\ ~stdio_is_alive(stdio)
          /\ stdio.last.op = "is_alive" => stdio.last.ret = FALSE)
  /\ [][/\ Dead(stdio) => Dead(stdio')
        /\ (~Dead(stdio) /\ Dead(stdio')) =>
             \A i \in 1..MaxRequests :
               stdio.pending[i] = "waiting" => stdio'.pending[i] = "reader_died"
        /\ (Dead(stdio) /\ stdio'.next_id # stdio.next_id) =>
             /\ stdio'.pending[stdio.next_id] = "client_dead"
             /\ stdio'.written = stdio.written]_vars

\* The reader ended on its own with two calls pending: both completed with
\* reader_died, and a call made afterwards failed without being written.
C28_Witness ==
  /\ stdio.reader = "ended" /\ ~stdio.closed
  /\ stdio.pending[1] = "reader_died" /\ stdio.pending[2] = "reader_died"
  /\ stdio.pending[3] = "client_dead"
  /\ 3 \notin stdio.written

\* ---------------------------------------------------------------- C30
\* The call of work item i has taken no concurrency slot and sent no
\* InvokeTool command.
NoSlotNoInvoke(i) ==
  /\ "acquire" \notin wk[i].did
  /\ ~wk[i].entered /\ ~wk[i].held_global /\ wk[i].held_sem = 0
  /\ \A k \in 1..Len(wk[i].sent) : wk[i].sent[k] # "InvokeToolCommand"

\* C30: a call that runs either cancellation check with the signal set returns
\* there, with a CancellationError result, and the step touches neither the
\* concurrency manager nor the provider; such a call has acquired no slot and
\* sent no InvokeTool command; one stopped by the first check has, besides,
\* looked up no provider, tested no circuit breaker, entered no cold start
\* and sent no command at all.
C30_CancelledBeforeAcquire ==
  /\ [](\A i \in Indexes :
          /\ wk[i].cancelled_at # "none" =>
               /\ wk[i].pc = "finished"
               /\ wk[i].result = CallResult(batch.calls[i], FALSE, "CancellationError")
               /\ NoSlotNoInvoke(i)
          /\ wk[i].cancelled_at = "start" =>
               wk[i].did = {} /\ wk[i].sent = <<>> /\ wk[i].sf = "none" /\ ~wk[i].rpc)
  /\ [][\A i \in Indexes :
          (wk[i].pc \in {"check_cancel", "check_cancel2"} /\ batch.cancel
             /\ wk'[i].pc # wk[i].pc)
            => /\ wk'[i].pc = "finished"
               /\ wk'[i].cancelled_at =
                    (IF wk[i].pc = "check_cancel" THEN "start" ELSE "after_start")
               /\ wk'[i].result.error_type = "CancellationError"
               /\ UNCHANGED <<cm, provider, procs>>]_vars

\* One call was stopped by the check after the cold start it had led, its
\* StartProvider command sent and nothing else.
C30_Witness ==
  \E i \in Indexes :
    /\ wk[i].cancelled_at = "after_start"
    /\ wk[i].sent = <<"StartProviderCommand">>
    /\ wk[i].did = {"get_provider", "circuit_breaker", "cold_start"}

\* ---------------------------------------------------------------- C31
\* The BatchCallCompleted events the batch has published for call i.
CallCompletedEvents(i) ==
  {k \in 1..Len(batch.events) :
     batch.events[k].type = "BatchCallCompleted" /\ batch.events[k].index = i}

\* A tool invocation was attempted for call i: its InvokeTool command was sent.
Attempted(i) == \E k \in 1..Len(wk[i].sent) : wk[i].sent[k] = "InvokeToolCommand"

\* C31: when execute() returns, one BatchCallCompleted has been published for
\* every call whose tool invocation was attempted and none for a call on which
\* no invocation was attempted.
C31_CompletedEventPerAttempt ==
  Returned =>
    \A i \in Indexes :
      Cardinality(CallCompletedEvents(i)) = (IF Attempted(i) THEN 1 ELSE 0)

\* ------------------------------------------------- the aggregate lock
\* RLock.acquire() returning whoever holds the lock.
lock_always_acquirable(l, t) == TRUE

\* RLock.acquire() can return for thread t: the lock is free or t's own.
lock_acquirable(l, t) == l.owner \in {NoOwner, t}

\* `with self._lock:` entered and left by thread t.
lock_acquire(l, t) == [l EXCEPT !.owner = t, !.depth = @ + 1]
lock_release(l, t) ==
  [l EXCEPT !.depth = @ - 1, !.owner = IF l.depth = 1 THEN NoOwner ELSE @]

\* Managers of the callers that reach invoke_tool through cm.acquire: no
\* global limit, the provider unlimited or limited to 1 or 2.
LockManagers == {NewManager(UNLIMITED, d) : d \in 0..MaxLimit}

InitLock ==
  /\ InitProv
  /\ cm \in LockManagers
  /\ thr = [t \in Threads |-> IdleThread]
  /\ InitBatchIdle
  /\ InitInfraIdle

LkStep(l) == lk' = l /\ UNCHANGED <<provVars, cmVars, batchVars, bus, stdio>>

\* A thread calls ensure_ready() or health_check().
LockCall ==
  \E t \in Threads : \E name \in {"ensure_ready", "health_check"} :
    /\ lk.at[t] = "idle"
    /\ LkStep([lk EXCEPT !.at[t] = "want_lock", !.op[t] = name])

\* A thread enters `with cm.acquire(provider)` to call invoke_tool: with a
\* free provider slot it goes on to invoke_tool, otherwise it waits for one.
LockInvoke ==
  \E t \in Threads :
    LET r1 == acquire_global(cm, [thr[t] EXCEPT !.provider = "A"])
        r2 == acquire_get_semaphore(r1.cm, r1.th)
        r3 == acquire_provider(r2.cm, r2.th)
    IN /\ lk.at[t] = "idle"
       /\ cm' = r3.cm
       /\ thr' = [thr EXCEPT ![t] = r3.th]
       /\ lk' = [lk EXCEPT !.at[t] = IF r3.th.pc = "inside" THEN "want_lock" ELSE "slot_wait",
                            !.op[t] = "invoke_tool"]
       /\ UNCHANGED <<provVars, batchVars, bus, stdio>>

\* The blocking acquire of the provider semaphore returns.
LockSlotGranted ==
  \E t \in Threads :
    LET r == acquire_provider_blocking(cm, thr[t])
    IN /\ lk.at[t] = "slot_wait"
       /\ cm.sems[thr[t].sem].permits > 0
       /\ cm' = r.cm
       /\ thr' = [thr EXCEPT ![t] = r.th]
       /\ lk' = [lk EXCEPT !.at[t] = "want_lock"]
       /\ UNCHANGED <<provVars, batchVars, bus, stdio>>

\* What the operation called by name does to the aggregate, and the RPCs it
\* makes, for one choice of what the child answers.
Outcomes(name) ==
  IF name = "ensure_ready"
  THEN {ensure_ready(Ctx, Inp(start, ToolNames, FALSE, "add", "ok", {}, "ok")) :
          start \in StartChoices}
  ELSE IF name = "health_check"
  THEN {health_check(Ctx, Inp("ok", {}, FALSE, "add", "ok", {}, rpc)) :
          rpc \in (IF Fast THEN RpcOutcomes ELSE {"ok"})}
  ELSE {invoke_tool(Ctx, Inp(start, ToolNames, FALSE, "add", "ok", ToolNames, rpc)) :
          start \in StartChoices, rpc \in RpcOutcomes}

\* `with self._lock:` of the operation is entered; the operation runs from
\* here to the release of the lock.
LockAcquire ==
  \E t \in Threads : \E c \in Outcomes(lk.op[t]) :
    /\ lk.at[t] = "want_lock"
    /\ lock_acquirable(lk, t)
    /\ ~c.capped /\ c.p.version <= MaxVersion /\ c.p.consecutive_failures <= MaxCF
    /\ LkStep([lock_acquire(lk, t) EXCEPT
                 !.at[t] = IF c.rpcs = <<>> THEN "finishing" ELSE "locked",
                 !.plan = c.rpcs, !.after = <<c.p, c.procs>>])

\* client.call(method, ...): the request is written to the child.
RpcBegin ==
  \E t \in Threads :
    /\ lk.at[t] = "locked"
    /\ LkStep([lk EXCEPT !.at[t] = "in_rpc", !.inflight = @ \cup {<<t, Head(lk.plan)>>}])

\* client.call returns or raises: the response, an error or the timeout.
RpcEnd ==
  \E t \in Threads :
    /\ lk.at[t] = "in_rpc"
    /\ LkStep([lk EXCEPT !.inflight = {x \in @ : x[1] # t},
                          !.plan = Tail(@),
                          !.at[t] = IF Len(lk.plan) = 1 THEN "finishing" ELSE "locked"])

\* The operation leaves `with self._lock:`; what it did to the aggregate is
\* there for the next holder of the lock.
LockRelease ==
  \E t \in Threads :
    /\ lk.at[t] = "finishing"
    /\ provider' = lk.after[1]
    /\ procs' = lk.after[2]
    /\ lk' = [lock_release(lk, t) EXCEPT
                !.at[t] = IF lk.op[t] = "invoke_tool" THEN "returned" ELSE "idle",
                !.op[t] = IF lk.op[t] = "invoke_tool" THEN @ ELSE "none",
                !.plan = <<>>, !.after = <<>>]
    /\ UNCHANGED <<last, cmVars, batchVars, bus, stdio>>

\* invoke_tool has returned or raised: the scope of cm.acquire is left.
LockLeaveScope ==
  \E t \in Threads : \E exc \in BOOLEAN :
    LET r1 == release_provider(cm, thr[t], exc)
        r2 == release_global(r1.cm, r1.th)
    IN /\ lk.at[t] = "returned"
       /\ cm' = r2.cm
       /\ thr' = [thr EXCEPT ![t] = [r2.th EXCEPT !.ended = "none"]]
       /\ lk' = [lk EXCEPT !.at[t] = "idle", !.op[t] = "none"]
       /\ UNCHANGED <<provVars, batchVars, bus, stdio>>

NextLock ==
  \/ LockCall
  \/ LockInvoke
  \/ LockSlotGranted
  \/ LockAcquire
  \/ RpcBegin
  \/ RpcEnd
  \/ LockRelease
  \/ LockLeaveScope

SpecLock == InitLock /\ [][NextLock]_vars

\* ---------------------------------------------------------------- C32
\* The threads between the acquisition and the release of the aggregate lock.
InOperation == {t \in Threads : lk.at[t] \in {"locked", "in_rpc", "finishing"}}

\* C32: at most one RPC is in flight on the provider, and it belongs to the
\* thread holding the aggregate lock; at most one operation is between the
\* acquisition and the release of the lock, whatever the provider's
\* concurrency limit admits, and no RPC of another caller begins or ends
\* while an operation holds the lock.
C32_OneRpcInFlight ==
  /\ [](/\ Cardinality(lk.inflight) <= 1
        /\ \A x \in lk.inflight : lk.owner = x[1]
        /\ Cardinality(InOperation) <= 1
        /\ \A t \in InOperation : lk.owner = t)
  /\ [][\A t \in InOperation :
          /\ lk'.inflight # lk.inflight =>
               (lk'.inflight \cup lk.inflight) \subseteq {t} \X {"initialize", "tools/list", "tools/call"}
          /\ \A u \in Threads \ {t} : lk'.at[u] \notin {"locked", "in_rpc", "finishing"}]_vars

\* A provider limited to two concurrent calls: one invoke_tool has its
\* tools/call in flight, a second one holds the other slot and waits for the
\* lock, and so does a health check.
C32_Witness ==
  /\ get_provider_limit(cm, "A") = 2
  /\ \E a, b, h \in Threads :
       /\ lk.op[a] = "invoke_tool" /\ lk.inflight = {<<a, "tools/call">>}
       /\ lk.op[b] = "invoke_tool" /\ lk.at[b] = "want_lock" /\ thr[b].pc = "inside"
       /\ lk.op[h] = "health_check" /\ lk.at[h] = "want_lock"

\* ---------------------------------------------------------------- C33
\* C33: a call that has passed the check after cold start sends its InvokeTool
\* command once it is inside the acquire scope, whether or not the cancel
\* signal has been set in the meantime; the command carries the effective
\* timeout computed at the start of the pipeline, whatever time is left for
\* the batch when it is sent.
C33_NoCancelCheckAfterAcquire ==
  /\ [](\A i \in Indexes :
          wk[i].command # <<>> =>
            /\ Attempted(i)
            /\ wk[i].command[1].timeout = wk[i].effective_timeout
            /\ wk[i].effective_timeout = 1)
  /\ [][\A i \in Indexes :
          (wk[i].pc = "inside" /\ wk'[i].pc # "inside")
            => /\ wk'[i].pc = "invoked"
               /\ wk'[i].command # <<>>
               /\ wk'[i].command[2] = batch.cancel
               /\ wk'[i].command[3] = remaining_global(batch)]_vars

\* A call waited for a slot and then sent its command with the cancel signal
\* set and the batch's deadline passed, with the timeout computed before.
C33_Witness ==
  \E i \in Indexes :
    /\ wk[i].had_to_wait
    /\ wk[i].command # <<>>
    /\ wk[i].command[2] = TRUE
    /\ wk[i].command[3] = 0
    /\ wk[i].command[1].timeout = 1

\* ---------------------------------------------------------------- C34
\* C34: once execute() has returned, every work item of the batch has finished
\* and holds no permit, and every permit of the concurrency manager is
\* available or held by a caller outside the batch.
C34_ReturnsAfterWorkers ==
  Returned =>
    /\ \A i \in Indexes :
         wk[i].pc = "finished" /\ ~wk[i].held_global /\ wk[i].held_sem = 0
    /\ cm.global_limit # UNLIMITED =>
         cm.global_permits + Cardinality({t \in Threads : thr[t].held_global})
           = cm.global_limit
    /\ \A k \in 1..Len(cm.sems) :
         cm.sems[k].permits + Cardinality({t \in Threads : thr[t].held_sem = k})
           = cm.sems[k].limit

\* A batch returned after its collection was cut short, one of its calls
\* having sent its command after the cancel signal was set and therefore
\* after the collection had ended.
C34_Witness ==
  /\ Returned
  /\ \E i \in Uncollected : wk[i].command # <<>> /\ wk[i].command[2] = TRUE

\* ---------------------------------------------------------------- C35
\* C35: in a batch begun while should_degrade() is true, and with nothing but
\* the batch acting on the provider, no step changes the provider or its
\* processes: the circuit stays open and a DEGRADED provider stays DEGRADED,
\* however long ago the last failure was; no call sends a command or causes an
\* RPC, and every call that reaches the circuit breaker test returns
\* CircuitBreakerOpen.
C35_BatchNeverReopens ==
  /\ []((batch.pc # "idle" /\ batch.open0) =>
          /\ should_degrade(provider)
          /\ batch.state0 = "degraded" => provider.state = "degraded"
          /\ \A i \in Indexes :
               /\ wk[i].sent = <<>> /\ ~wk[i].rpc /\ wk[i].command = <<>>
               /\ "circuit_breaker" \in wk[i].did =>
                    /\ wk[i].pc = "finished"
                    /\ wk[i].result.error_type = "CircuitBreakerOpen")
  /\ [][(batch.pc # "idle" /\ batch.open0) =>
          (provider' = provider /\ procs' = procs)]_vars

\* A batch returned with a call rejected by the open circuit of a DEGRADED
\* provider whose backoff had elapsed: an explicit start would have been let
\* through.
C35_Witness ==
  /\ Returned
  /\ batch.state0 = "degraded" /\ provider.state = "degraded"
  /\ can_retry(provider)
  /\ \E i \in Indexes :
       /\ batch.calls[i].provider = "A"
       /\ batch.out.results[i + 1].error_type = "CircuitBreakerOpen"

\* ---------------------------------------------------------------- C36
\* Threads that hold a global permit on behalf of provider p: inside its
\* scope, waiting for its semaphore, or on their way in or out.
HoldingGlobalFor(p) == {t \in Threads : thr[t].held_global /\ thr[t].provider = p}

\* C36: with a bounded global limit, a thread waiting for a provider semaphore
\* holds a global permit; once as many threads as the global limit hold one on
\* behalf of a single provider, no permit is left and every thread that called
\* acquire() for another provider waits for the global semaphore; and a thread
\* leaves that wait only in a state where a permit has been given back.
C36_GlobalHeldWhileQueued ==
  /\ [](cm.global_limit # UNLIMITED =>
          /\ \A t \in Threads : thr[t].pc = "provider_wait" => thr[t].held_global
          /\ \A p \in Providers :
               Cardinality(HoldingGlobalFor(p)) = cm.global_limit =>
                 /\ cm.global_permits = 0
                 /\ \A t \in Threads :
                      (thr[t].provider # p /\ thr[t].pc # "idle") =>
                        thr[t].pc = "global_wait")
  /\ [][\A t \in Threads :
          (thr[t].pc = "global_wait" /\ thr'[t].pc # "global_wait") =>
            cm.global_permits > 0]_vars

\* Global limit 2, provider A limited to 1: one thread inside the scope of A,
\* one waiting for the semaphore of A, and a third waiting for the global
\* semaphore on behalf of B, none of whose slots is taken.
C36_Witness ==
  /\ cm.global_limit = 2
  /\ \E t, u, v \in Threads :
       /\ thr[t].pc = "inside" /\ thr[t].provider = "A"
       /\ thr[u].pc = "provider_wait" /\ thr[u].provider = "A"
       /\ thr[v].pc = "global_wait" /\ thr[v].provider = "B"
       /\ Blocked(v)
       /\ HasFreeSlot("B")
       /\ get_provider_limit(cm, "B") # 0

\* ---------------------------------------------------------------- C37
\* C37: in every BatchResult total is the number of calls and of results,
\* succeeded + failed + cancelled = total, and success holds exactly when
\* failed and cancelled are both 0; cancelled counts the calls without a
\* collected result, which are returned as CancellationError or TimeoutError
\* and are not counted as failed; succeeded and failed count the collected
\* results that succeeded and that did not.
C37_CountsAddUp ==
  Returned =>
    LET out == batch.out
        ok == {i \in Collected : wk[i].raised = "none" /\ wk[i].result.success}
    IN /\ out.total = NCalls
       /\ Len(out.results) = out.total
       /\ out.succeeded + out.failed + out.cancelled = out.total
       /\ out.success <=> (out.failed = 0 /\ out.cancelled = 0)
       /\ out.cancelled = Cardinality(Uncollected)
       /\ out.succeeded = Cardinality(ok)
       /\ out.failed = Cardinality(Collected \ ok)
       /\ \A i \in Uncollected :
            /\ ~out.results[i + 1].success
            /\ out.results[i + 1].error_type \in {"CancellationError", "TimeoutError"}

\* A batch returned with a failed call and a call filled in: its unsuccessful
\* results outnumber failed.
C37_Witness ==
  /\ Returned
  /\ batch.out.failed > 0
  /\ batch.out.cancelled > 0
  /\ Cardinality({k \in 1..Len(batch.out.results) : ~batch.out.results[k].success})
       > batch.out.failed

\* ---------------------------------------------------------------- C38
\* C38: in a batch with fail_fast that collected a failure, the collection
\* ended with that failure, and every call without a collected result is
\* returned as an unsuccessful CancellationError and counted in cancelled,
\* whatever its worker did or returned afterwards.
C38_LateResultDiscarded ==
  (Returned /\ batch.fail_fast /\ batch.out.failed > 0) =>
    /\ batch.out.failed = 1
    /\ batch.out.cancelled = Cardinality(Uncollected)
    /\ \A i \in Uncollected :
         /\ ~batch.out.results[i + 1].success
         /\ batch.out.results[i + 1].error_type = "CancellationError"

\* A fail_fast batch ended by a failure, not by the timeout, in which a call
\* sent its InvokeToolCommand after the cancel signal was set, the invocation
\* succeeded, and the call is returned as CancellationError.
C38_Witness ==
  /\ Returned /\ batch.fail_fast /\ ~batch.timed_out
  /\ batch.out.failed = 1
  /\ \E i \in Uncollected :
       /\ wk[i].command # <<>> /\ wk[i].command[2] = TRUE
       /\ wk[i].rpc
       /\ wk[i].raised = "none" /\ wk[i].result.success
       /\ batch.out.results[i + 1].error_type = "CancellationError"

\* ---------------------------------------------------------------- C39
\* C39: between operations, a DEGRADED provider has should_degrade() true:
\* consecutive_failures has reached max_consecutive_failures; and no step that
\* leaves the provider DEGRADED lowers consecutive_failures.
C39_DegradedImpliesShouldDegrade ==
  /\ [](provider.state = DEGRADED => should_degrade(provider))
  /\ [][(provider.state = DEGRADED /\ provider'.state = DEGRADED) =>
          provider'.consecutive_failures >= provider.consecutive_failures]_vars

\* A provider that a failed health check has just moved from READY to DEGRADED.
C39_Witness ==
  /\ last.op = "health_check"
  /\ last.p0.state = READY
  /\ provider.state = DEGRADED
  /\ provider.consecutive_failures = max_consecutive_failures

\* The converse does not hold: failed invocations have raised
\* consecutive_failures to the threshold and the provider is still READY.
C39_ReadyWithOpenCircuit ==
  /\ last.op = "invoke_tool"
  /\ provider.state = READY
  /\ should_degrade(provider)

\* ---------------------------------------------------------------- C40
\* The positions of the events of one type among those execute() published.
EventsOfType(type) == {k \in 1..Len(batch.events) : batch.events[k].type = type}

\* C40: from the start of execute() its first published event is the one
\* BatchInvocationRequested, before any result is collected; no
\* BatchInvocationCompleted is published while results are collected; and once
\* execute() has returned the one BatchInvocationCompleted is the last event,
\* every event between the two is a BatchCallCompleted, and its succeeded,
\* failed and cancelled are those of the BatchResult.
C40_EventOrder ==
  batch.pc # "idle" =>
    LET n == Len(batch.events)
    IN /\ EventsOfType("BatchInvocationRequested") = {1}
       /\ ~Returned =>
            /\ EventsOfType("BatchInvocationCompleted") = {}
            /\ EventsOfType("BatchCallCompleted") = 2..n
       /\ Returned =>
            /\ EventsOfType("BatchInvocationCompleted") = {n}
            /\ EventsOfType("BatchCallCompleted") = 2..(n - 1)
            /\ batch.events[n].succeeded = batch.out.succeeded
            /\ batch.events[n].failed = batch.out.failed
            /\ batch.events[n].cancelled = batch.out.cancelled
            /\ batch.events[n].total = batch.out.total

\* A returned batch that published a BatchCallCompleted between its two batch
\* events and whose completion event counts a succeeded and a cancelled call.
C40_Witness ==
  /\ Returned
  /\ EventsOfType("BatchCallCompleted") # {}
  /\ batch.events[Len(batch.events)].succeeded > 0
  /\ batch.events[Len(batch.events)].cancelled > 0

====
